---- MODULE Spec2Model ----
(***************************************************************************)
(* A model of the verlet repository (nethe550/verlet): the point-mass      *)
(* integrator, the spring relaxation, the boundary clamp, the Entity and   *)
(* Simulation containers and the Verlet play/pause scheduler.              *)
(*                                                                         *)
(* Numbers.  A JavaScript number is modelled as an exact rational          *)
(* [n |-> numerator, d |-> denominator] in lowest terms with d > 0.        *)
(* d = 0 encodes the three IEEE values that are not reals: NaN is 0/0,     *)
(* +Infinity is 1/0 and -Infinity is -1/0.  Rounding and the sign of zero  *)
(* are not modelled.  A square root that is not rational is the marker     *)
(* Inexact (d = -1); every operation propagates it and no action may       *)
(* produce a state that holds it, so every state the model reaches is one  *)
(* whose numbers the code computes without a rounding step in sqrt.        *)
(***************************************************************************)
EXTENDS Integers, Sequences, FiniteSets, TLC

VARIABLES
    points,          \* point id -> Point object (fixed, position, dpos, mass, friction, gravity, size)
    springs,         \* spring id -> Spring object (a, b, stiffness, restLength)
    start,           \* history: point id -> position and dpos right after construction
    nUpd,            \* history: point id -> number of Point.update() calls made on it
    nSpr,            \* history: spring id -> number of Spring.update() calls made on it
    entity,          \* the Entity object: iterations, points (insertion order), springs (insertion order)
    elog,            \* history: the calls made by the last Entity.update, in order
    nTicks,          \* history: number of Entity.update calls so far
    entities,        \* Simulation.entities, a Set in insertion order
    last,            \* history: the last Simulation call: op, args, ret, threw, calls
    playing,         \* Verlet._playing
    updateInterval,  \* Verlet._updateInterval
    renderFrame,     \* Verlet._renderFrame
    interactable,    \* Verlet._interactable
    intervals,       \* the browser's active setInterval timers (created, not cleared)
    frames,          \* the browser's pending requestAnimationFrame callbacks
    nextHandle,      \* the next timer / frame handle the browser hands out
    ctorPlay,        \* history: the playOnStart argument the Verlet was constructed with
    fresh,           \* history: nothing has been called on the Verlet since its constructor returned
    intervalsMade,   \* history: number of setInterval calls so far
    simObject,       \* the Entity the Verlet's simulation.entities holds in place of a Set, or Null
    ctorEntities,    \* history: the ...entities arguments the Verlet was constructed with
    mi,              \* the MouseInteraction object: mouse, _activePoint, _prevFixedStyle, and each point's style
    mlog,            \* history: the last call made on the MouseInteraction or its points (op, point, threw), and the drags so far
    cArg,            \* the arguments of Rectangle.Constrain: p, rect, offset
    cRes             \* whether Rectangle.Constrain has been applied to cArg, and the value it returned

kernelVars == <<points, springs, start, nUpd, nSpr>>
entityVars == <<entity, elog, nTicks>>
simVars == <<entities, last>>
verletVars ==
    <<playing, updateInterval, renderFrame, interactable, intervals, frames, nextHandle,
      ctorPlay, fresh, intervalsMade, simObject, ctorEntities>>
mouseVars == <<mi, mlog>>
constrainVars == <<cArg, cRes>>
vars == <<kernelVars, entityVars, simVars, verletVars, mouseVars, constrainVars>>

----------------------------------------------------------------------------
(* JavaScript numbers as rationals *)

Abs(i) == IF i < 0 THEN -i ELSE i

Sign(i) == IF i < 0 THEN -1 ELSE IF i > 0 THEN 1 ELSE 0

RECURSIVE GCD(_, _)
GCD(a, b) == IF b = 0 THEN a ELSE GCD(b, a % b)

NaN == [n |-> 0, d |-> 0]

PosInf == [n |-> 1, d |-> 0]

NegInf == [n |-> -1, d |-> 0]

Inexact == [n |-> 0, d |-> -1]

\* n/d in lowest terms; d = 0 gives NaN or an infinity by the sign of n
Q(n, d) ==
    IF d = 0 THEN [n |-> Sign(n), d |-> 0]
    ELSE LET g == GCD(Abs(n), Abs(d))
             s == IF d < 0 THEN -1 ELSE 1
         IN  [n |-> (s * n) \div g, d |-> (s * d) \div g]

R(i) == [n |-> i, d |-> 1]

IsNaN(a) == a.d = 0 /\ a.n = 0

IsInexact(a) == a.d < 0

IsFinite(a) == a.d > 0

Neg(a) == [n |-> -a.n, d |-> a.d]

\* Math.abs
JSAbs(a) == [n |-> Abs(a.n), d |-> a.d]

Add(a, b) ==
    IF IsInexact(a) \/ IsInexact(b) THEN Inexact
    ELSE IF IsNaN(a) \/ IsNaN(b) THEN NaN
    ELSE IF a.d = 0 /\ b.d = 0 THEN (IF a.n = b.n THEN a ELSE NaN)
    ELSE IF a.d = 0 THEN a
    ELSE IF b.d = 0 THEN b
    ELSE LET g == GCD(a.d, b.d)
         IN  Q(a.n * (b.d \div g) + b.n * (a.d \div g), (a.d \div g) * b.d)

Sub(a, b) == Add(a, Neg(b))

Mul(a, b) ==
    IF IsInexact(a) \/ IsInexact(b) THEN Inexact
    ELSE IF a.d = 0 \/ b.d = 0 THEN Q(Sign(a.n) * Sign(b.n), 0)
    ELSE LET g1 == GCD(Abs(a.n), b.d)
             g2 == GCD(Abs(b.n), a.d)
         IN  Q((a.n \div g1) * (b.n \div g2), (a.d \div g2) * (b.d \div g1))

\* x / 0 is an infinity of x's sign, 0 / 0 is NaN, x / Infinity is 0
Div(a, b) ==
    IF IsInexact(a) \/ IsInexact(b) THEN Inexact
    ELSE IF b.d = 0 THEN (IF a.d = 0 THEN NaN ELSE R(0))
    ELSE IF b.n = 0 THEN Q(a.n, 0)
    ELSE IF a.d = 0 THEN Q(a.n * b.n, 0)
    ELSE Mul(a, Q(b.d, b.n))

\* a < b; false when either side is NaN
Lt(a, b) ==
    /\ ~IsNaN(a)
    /\ ~IsNaN(b)
    /\ IF a.d = 0 /\ b.d = 0 THEN a.n < b.n
       ELSE IF a.d = 0 THEN a.n < 0
       ELSE IF b.d = 0 THEN b.n > 0
       ELSE LET g == GCD(a.d, b.d)
            IN  a.n * (b.d \div g) < b.n * (a.d \div g)

Gt(a, b) == Lt(b, a)

Le(a, b) == ~IsNaN(a) /\ ~IsNaN(b) /\ ~Lt(b, a)

\* the integer square root of n >= 0, by Newton's iteration from x
RECURSIVE Newton(_, _)
Newton(n, x) ==
    LET y == (x + n \div x) \div 2
    IN  IF y >= x THEN x ELSE Newton(n, y)

Root(n) == IF n = 0 THEN 0 ELSE Newton(n, n)

IsSquare(n) == Root(n) * Root(n) = n

\* Math.sqrt: NaN below zero, exact on a square of a rational, Inexact otherwise
Sqrt(a) ==
    IF IsInexact(a) THEN Inexact
    ELSE IF IsNaN(a) \/ a.n < 0 THEN NaN
    ELSE IF a.d = 0 THEN PosInf
    ELSE IF IsSquare(a.n) /\ IsSquare(a.d) THEN [n |-> Root(a.n), d |-> Root(a.d)]
    ELSE Inexact

----------------------------------------------------------------------------
(* Vector2 *)

Vec(x, y) == [x |-> x, y |-> y]

V(i, j) == Vec(R(i), R(j))

VAdd(a, b) == Vec(Add(a.x, b.x), Add(a.y, b.y))

VSub(a, b) == Vec(Sub(a.x, b.x), Sub(a.y, b.y))

VMul(a, s) == Vec(Mul(a.x, s), Mul(a.y, s))

SqrDistance(a, b) ==
    Add(Mul(Sub(b.x, a.x), Sub(b.x, a.x)), Mul(Sub(b.y, a.y), Sub(b.y, a.y)))

\* Vector2.Distance: Math.sqrt(SqrDistance).  On an axis-parallel pair the root of the
\* one square is the absolute difference, taken directly to keep the integers small.
Distance(a, b) ==
    IF a.x = b.x /\ IsFinite(a.x) THEN JSAbs(Sub(b.y, a.y))
    ELSE IF a.y = b.y /\ IsFinite(a.y) THEN JSAbs(Sub(b.x, a.x))
    ELSE Sqrt(SqrDistance(a, b))

IsZero(v) == v.x = R(0) /\ v.y = R(0)

VInexact(v) == IsInexact(v.x) \/ IsInexact(v.y)

VIsNaN(v) == IsNaN(v.x) \/ IsNaN(v.y)

----------------------------------------------------------------------------
(* Math.min, Math.max, Math.abs and the constants of Number *)

JSMax(a, b) == IF IsNaN(a) \/ IsNaN(b) THEN NaN ELSE IF Lt(a, b) THEN b ELSE a

JSMin(a, b) == IF IsNaN(a) \/ IsNaN(b) THEN NaN ELSE IF Lt(b, a) THEN b ELSE a

\* Number.EPSILON.  2^-52 does not fit the model's integers; 2^-12 stands for it.
\* No number the model feeds to a clamp lies strictly between 0 and this value,
\* so every Math.max(EPSILON, x) takes the branch it takes in the code.
EPSILON == [n |-> 1, d |-> 4096]

\* Number.MAX_VALUE, the largest finite number: only an infinity exceeds it
MAX_VALUE == [n |-> 2147483647, d |-> 1]

ClampToMaxValue(a) == IF IsNaN(a) THEN NaN ELSE IF a = PosInf THEN MAX_VALUE ELSE a

----------------------------------------------------------------------------
(* Point *)

\* new Point(...) laying _dpos out behind the point, at position - velocity
Point_DposBehind(fixed, position, velocity, mass, friction, gravity, size) ==
    [fixed    |-> fixed,
     position |-> position,
     dpos     |-> IF ~IsZero(velocity) THEN VSub(position, velocity) ELSE position,
     mass     |-> ClampToMaxValue(JSMax(EPSILON, JSAbs(mass))),
     friction |-> JSMin(JSMax(friction, R(0)), R(1)),
     gravity  |-> gravity,
     size     |-> size]

\* new Point(fixed, position, velocity, mass, friction, gravity, style)
Point(fixed, position, velocity, mass, friction, gravity, size) ==
    [fixed    |-> fixed,
     position |-> position,
     dpos     |-> IF ~IsZero(velocity) THEN VAdd(position, velocity) ELSE position,
     mass     |-> ClampToMaxValue(JSMax(EPSILON, JSAbs(mass))),
     friction |-> JSMin(JSMax(friction, R(0)), R(1)),
     gravity  |-> gravity,
     size     |-> size]

\* set friction(f)
Point_set_friction(p, f) == [p EXCEPT !.friction = JSMin(JSMax(f, R(0)), R(1))]

\* set mass(m)
Point_set_mass(p, m) == [p EXCEPT !.mass = ClampToMaxValue(JSMax(EPSILON, JSAbs(m)))]

\* Point.clearVelocity() leaving _dpos as it is
Point_clearVelocity_Keep(p) == p

\* Point.clearVelocity()
Point_clearVelocity(p) == [p EXCEPT !.dpos = p.position]

\* Point.update() taking the velocity as _dpos - position, the way the constructor
\* lays _dpos out
Point_update_Reversed(p) ==
    IF p.fixed THEN p
    ELSE LET velocity == VMul(VSub(p.dpos, p.position), Sub(R(1), p.friction))
         IN  [p EXCEPT !.dpos = p.position,
                       !.position = VAdd(VAdd(p.position, velocity), p.gravity)]

\* Point.update() without its fixed guard
Point_update_Unguarded(p) ==
    LET velocity == VMul(VSub(p.position, p.dpos), Sub(R(1), p.friction))
    IN  [p EXCEPT !.dpos = p.position,
                  !.position = VAdd(VAdd(p.position, velocity), p.gravity)]

\* Point.update() with friction damping the acceleration too
Point_update_DampAll(p) ==
    IF p.fixed THEN p
    ELSE LET velocity == VMul(VAdd(VSub(p.position, p.dpos), p.gravity), Sub(R(1), p.friction))
         IN  [p EXCEPT !.dpos = p.position,
                       !.position = VAdd(p.position, velocity)]

\* Point.update()
Point_update(p) ==
    IF p.fixed THEN p
    ELSE LET velocity == VMul(VSub(p.position, p.dpos), Sub(R(1), p.friction))
         IN  [p EXCEPT !.dpos = p.position,
                       !.position = VAdd(VAdd(p.position, velocity), p.gravity)]

----------------------------------------------------------------------------
(* Spring *)

\* new Spring(a, b, stiffness, restLength, style); restLength -1 asks for the
\* distance between the endpoints at construction
Spring(a, b, stiffness, restLength, pts) ==
    [a          |-> a,
     b          |-> b,
     stiffness  |-> JSMax(JSAbs(stiffness), EPSILON),
     restLength |-> IF restLength = R(-1)
                    THEN Distance(pts[a].position, pts[b].position)
                    ELSE JSMax(JSAbs(restLength), EPSILON)]

\* set restLength(rl)
Spring_set_restLength(s, rl) == [s EXCEPT !.restLength = JSMax(JSAbs(rl), EPSILON)]

\* set stiffness(s)
Spring_set_stiffness(s, st) == [s EXCEPT !.stiffness = JSMax(JSAbs(st), EPSILON)]

\* Spring.update() correcting by restLength / dist, the current distance not subtracted
Spring_update_PullAlways(s, pts) ==
    LET pa       == pts[s.a]
        pb       == pts[s.b]
        d        == VSub(pb.position, pa.position)
        dist     == Distance(pa.position, pb.position)
        restDiff == Mul(Div(s.restLength, dist), s.stiffness)
        offset   == VMul(d, Mul(restDiff, Q(1, 2)))
        combined == Add(pa.mass, pb.mass)
        m2       == Div(pa.mass, combined)
        m1       == Div(pb.mass, combined)
        pts1     == IF ~pa.fixed
                    THEN [pts EXCEPT ![s.a].position = VSub(pa.position, VMul(offset, m1))]
                    ELSE pts
    IN  IF ~pb.fixed
        THEN [pts1 EXCEPT ![s.b].position = VAdd(pts1[s.b].position, VMul(offset, m2))]
        ELSE pts1

\* Spring.update() without the halving of the offset
Spring_update_FullOffset(s, pts) ==
    LET pa       == pts[s.a]
        pb       == pts[s.b]
        d        == VSub(pb.position, pa.position)
        dist     == Distance(pa.position, pb.position)
        restDiff == Mul(Div(Sub(s.restLength, dist), dist), s.stiffness)
        offset   == VMul(d, restDiff)
        combined == Add(pa.mass, pb.mass)
        m2       == Div(pa.mass, combined)
        m1       == Div(pb.mass, combined)
        pts1     == IF ~pa.fixed
                    THEN [pts EXCEPT ![s.a].position = VSub(pa.position, VMul(offset, m1))]
                    ELSE pts
    IN  IF ~pb.fixed
        THEN [pts1 EXCEPT ![s.b].position = VAdd(pts1[s.b].position, VMul(offset, m2))]
        ELSE pts1

\* Spring.update() with each endpoint moved by its own mass share
Spring_update_OwnShare(s, pts) ==
    LET pa       == pts[s.a]
        pb       == pts[s.b]
        d        == VSub(pb.position, pa.position)
        dist     == Distance(pa.position, pb.position)
        restDiff == Mul(Div(Sub(s.restLength, dist), dist), s.stiffness)
        offset   == VMul(d, Mul(restDiff, Q(1, 2)))
        combined == Add(pa.mass, pb.mass)
        m2       == Div(pa.mass, combined)
        m1       == Div(pb.mass, combined)
        pts1     == IF ~pa.fixed
                    THEN [pts EXCEPT ![s.a].position = VSub(pa.position, VMul(offset, m2))]
                    ELSE pts
    IN  IF ~pb.fixed
        THEN [pts1 EXCEPT ![s.b].position = VAdd(pts1[s.b].position, VMul(offset, m1))]
        ELSE pts1

\* Spring.update(): the points after one relaxation pass of spring s
Spring_update(s, pts) ==
    LET pa       == pts[s.a]
        pb       == pts[s.b]
        d        == VSub(pb.position, pa.position)
        dist     == Distance(pa.position, pb.position)
        restDiff == Mul(Div(Sub(s.restLength, dist), dist), s.stiffness)
        offset   == VMul(d, Mul(restDiff, Q(1, 2)))
        combined == Add(pa.mass, pb.mass)
        m2       == Div(pa.mass, combined)
        m1       == Div(pb.mass, combined)
        pts1     == IF ~pa.fixed
                    THEN [pts EXCEPT ![s.a].position = VSub(pa.position, VMul(offset, m1))]
                    ELSE pts
    IN  IF ~pb.fixed
        THEN [pts1 EXCEPT ![s.b].position = VAdd(pts1[s.b].position, VMul(offset, m2))]
        ELSE pts1

\* no coordinate of any point is outside the numbers the model represents
Exact(pts) ==
    \A p \in DOMAIN pts : ~VInexact(pts[p].position) /\ ~VInexact(pts[p].dpos)

----------------------------------------------------------------------------
(* Rectangle *)

Rect(x, y, w, h) == [x |-> R(x), y |-> R(y), w |-> R(w), h |-> R(h)]

\* Rectangle.Constrain with the right and bottom edges not inset by the offset
Rectangle_Constrain_NoInset(p, rect, offset) ==
    LET w  == Add(rect.x, rect.w)
        h  == Add(rect.y, rect.h)
        x1 == IF Gt(p.x, w) THEN w ELSE p.x
        x2 == IF Lt(p.x, Add(rect.x, offset)) THEN Add(rect.x, offset) ELSE x1
        y1 == IF Gt(p.y, h) THEN h ELSE p.y
        y2 == IF Lt(p.y, Add(rect.y, offset)) THEN Add(rect.y, offset) ELSE y1
    IN  Vec(x2, y2)

\* Rectangle.Constrain(p, rect, offset); rect.constrain(p, offset) forwards to it
Rectangle_Constrain(p, rect, offset) ==
    LET w  == Add(rect.x, rect.w)
        h  == Add(rect.y, rect.h)
        x1 == IF Gt(p.x, Sub(w, offset)) THEN Sub(w, offset) ELSE p.x
        x2 == IF Lt(p.x, Add(rect.x, offset)) THEN Add(rect.x, offset) ELSE x1
        y1 == IF Gt(p.y, Sub(h, offset)) THEN Sub(h, offset) ELSE p.y
        y2 == IF Lt(p.y, Add(rect.y, offset)) THEN Add(rect.y, offset) ELSE y1
    IN  Vec(x2, y2)

----------------------------------------------------------------------------
(* JavaScript values read off a Set object.  A Set is kept as the sequence *)
(* of its members in insertion order, which is the order for..of visits.   *)

JSNumber(i) == [kind |-> "number", val |-> i]

JSUndefined == [kind |-> "undefined", val |-> 0]

\* the value of set[name]: size is an accessor yielding a number; a Set has no length
Set_prop(set, name) == IF name = "size" THEN JSNumber(Len(set)) ELSE JSUndefined

\* a === b
StrictEquals(a, b) == a.kind = b.kind /\ a.val = b.val

\* whether the call expression v(...) can be made: calling a non-function raises a TypeError
Callable(v) == v.kind = "function"

Has(set, e) == \E i \in 1..Len(set) : set[i] = e

RECURSIVE Delete(_, _)
Delete(set, e) ==
    IF set = <<>> THEN <<>>
    ELSE IF Head(set) = e THEN Tail(set)
    ELSE <<Head(set)>> \o Delete(Tail(set), e)

Members(set) == {set[i] : i \in 1..Len(set)}

----------------------------------------------------------------------------
(* Entity *)

\* new Entity(iterations, points, springs)
Entity(iterations, pointIds, springIds) ==
    [iterations |-> IF Abs(iterations) > 1 THEN Abs(iterations) ELSE 1,
     points     |-> pointIds,
     springs    |-> springIds]

Call(op, id) == [op |-> op, id |-> id]

\* for (let p of this.points) { p.update(); p.position = bounds.constrain(p.position, p.style.size); }
RECURSIVE IntegrateAndClamp(_, _, _)
IntegrateAndClamp(st, ids, bounds) ==
    IF ids = <<>> THEN st
    ELSE LET p    == Head(ids)
             pts1 == [st.pts EXCEPT ![p] = Point_update(@)]
             pts2 == [pts1 EXCEPT ![p].position = Rectangle_Constrain(@, bounds, pts1[p].size)]
         IN  IntegrateAndClamp(
                 [pts |-> pts2,
                  log |-> st.log \o <<Call("Point.update", p), Call("constrain", p)>>],
                 Tail(ids), bounds)

\* for (let p of this.points) { p.position = bounds.constrain(p.position, p.style.size); }
RECURSIVE ClampAll(_, _, _)
ClampAll(st, ids, bounds) ==
    IF ids = <<>> THEN st
    ELSE LET p == Head(ids)
         IN  ClampAll(
                 [pts |-> [st.pts EXCEPT ![p].position =
                                     Rectangle_Constrain(@, bounds, st.pts[p].size)],
                  log |-> Append(st.log, Call("constrain", p))],
                 Tail(ids), bounds)

\* for (let s of this.springs) { s.update(); }
RECURSIVE RelaxAll(_, _, _)
RelaxAll(st, ids, sprs) ==
    IF ids = <<>> THEN st
    ELSE LET s == Head(ids)
         IN  RelaxAll(
                 [pts |-> Spring_update(sprs[s], st.pts),
                  log |-> Append(st.log, Call("Spring.update", s))],
                 Tail(ids), sprs)

\* the relaxation loop running one pass too many (i <= this._iterations)
Iterate_ExtraPass(st, i, e, bounds, sprs) ==
    LET Pass(x) == RelaxAll(ClampAll(x, e.points, bounds), e.springs, sprs)
        Passes[k \in 0..(e.iterations + 1)] == IF k = 0 THEN st ELSE Pass(Passes[k - 1])
    IN  Passes[e.iterations + 1 - i]

\* for (let i = 0; i < this._iterations; i++) { clamp every point; update every spring }
RECURSIVE Iterate(_, _, _, _, _)
Iterate(st, i, e, bounds, sprs) ==
    IF ~(i < e.iterations) THEN st
    ELSE Iterate(RelaxAll(ClampAll(st, e.points, bounds), e.springs, sprs),
                 i + 1, e, bounds, sprs)

\* Entity.removePoint(p): the entity afterwards and the value returned
Entity_removePoint(e, p) ==
    [e   |-> [e EXCEPT !.points = Delete(@, p)],
     ret |-> Has(e.points, p)]

\* Entity.update(bounds): the points afterwards and the calls made, in order.
\* Both early returns compare a Set's length, which is undefined, with 0.
Entity_update(e, bounds, pts, sprs) ==
    LET st0 == [pts |-> pts, log |-> <<>>]
    IN  IF StrictEquals(Set_prop(e.points, "length"), JSNumber(0)) THEN st0
        ELSE LET st1 == IntegrateAndClamp(st0, e.points, bounds)
             IN  IF StrictEquals(Set_prop(e.springs, "length"), JSNumber(0)) THEN st1
                 ELSE Iterate(st1, 0, e, bounds, sprs)

----------------------------------------------------------------------------
(* Simulation *)

\* the null reference; entity ids are positive
Null == 0

\* Simulation.addEntity(e) without the membership test
Simulation_addEntity_NoHas(set, e) ==
    IF e # Null
    THEN [set |-> Append(set, e), ret |-> TRUE]
    ELSE [set |-> set, ret |-> FALSE]

\* Simulation.addEntity(e)
Simulation_addEntity(set, e) ==
    IF e # Null /\ ~Has(set, e)
    THEN [set |-> Append(set, e), ret |-> TRUE]
    ELSE [set |-> set, ret |-> FALSE]

\* Simulation.removeEntity(e): Set.prototype.delete
Simulation_removeEntity(set, e) ==
    [set |-> Delete(set, e), ret |-> Has(set, e)]

RECURSIVE AddEach(_, _)
AddEach(acc, es) ==
    IF es = <<>> THEN acc
    ELSE LET r == Simulation_addEntity(acc.set, Head(es))
         IN  AddEach([set |-> r.set, ret |-> Append(acc.ret, r.ret)], Tail(es))

RECURSIVE RemoveEach(_, _)
RemoveEach(acc, es) ==
    IF es = <<>> THEN acc
    ELSE LET r == Simulation_removeEntity(acc.set, Head(es))
         IN  RemoveEach([set |-> r.set, ret |-> Append(acc.ret, r.ret)], Tail(es))

\* Simulation.addEntities(...e)
Simulation_addEntities(set, es) ==
    IF Len(es) > 0 THEN AddEach([set |-> set, ret |-> <<>>], es)
    ELSE [set |-> set, ret |-> <<>>]

\* Simulation.removeEntities(...e)
Simulation_removeEntities(set, es) ==
    IF Len(es) > 0 THEN RemoveEach([set |-> set, ret |-> <<>>], es)
    ELSE [set |-> set, ret |-> <<>>]

\* new Simulation(...args): simulation.entities after `this.entities = entities || new Set()`,
\* entities being the first argument (args are Entity objects here).  obj is the Entity
\* stored in the field in place of a Set, Null when the field holds the Set `set`.
Simulation_constructor(args) ==
    IF args = <<>> THEN [obj |-> Null, set |-> <<>>]
    ELSE [obj |-> Head(args), set |-> <<>>]

\* a member of an Entity object read by name: an Entity has none of has, add, delete, size
Entity_prop(name) ==
    IF name \in {"has", "add", "delete", "size"} THEN JSUndefined ELSE JSNumber(1)

\* Simulation.addEntities(...e) when simulation.entities holds the Entity obj or the Set set:
\* the first addEntity call evaluates this.entities.has(e)
Simulation_addEntities_on(obj, set, es) ==
    IF obj # Null /\ Len(es) > 0 /\ Head(es) # Null /\ ~Callable(Entity_prop("has"))
    THEN [set |-> set, ret |-> <<>>, threw |-> TRUE]
    ELSE LET r == Simulation_addEntities(set, es)
         IN  [set |-> r.set, ret |-> r.ret, threw |-> FALSE]

\* Simulation.update(bounds): whether it raised, and the entities whose update(bounds)
\* it invoked, in order.  The guard calls this.entities.size(), and size is a number.
Simulation_update(set) ==
    LET size == Set_prop(set, "size")
    IN  IF ~Callable(size) THEN [threw |-> TRUE, calls |-> <<>>]
        ELSE IF StrictEquals(size, JSNumber(0)) THEN [threw |-> FALSE, calls |-> <<>>]
        ELSE [threw |-> FALSE, calls |-> set]

----------------------------------------------------------------------------
(* Verlet: the play / pause scheduler.  A Verlet object is the record v of *)
(* its fields together with the browser's timers it has created.           *)

NoHandle == -1

\* setInterval(...): a fresh handle, now active
SetIntervalIn(v) ==
    [v EXCEPT !.intervals = @ \cup {v.nextHandle}, !.nextHandle = @ + 1, !.made = @ + 1]

\* requestAnimationFrame(this.render.bind(this)): a fresh handle, now pending,
\* stored in _renderFrame by every caller
RequestFrame(v) ==
    [v EXCEPT !.frames = @ \cup {v.nextHandle},
              !.renderFrame = v.nextHandle,
              !.nextHandle = @ + 1]

\* Verlet.render()
Verlet_render(v) == IF v.playing THEN RequestFrame(v) ELSE v

\* Verlet.play() starting an interval without looking at _updateInterval
Verlet_play_NoIntervalGuard(v) ==
    IF ~v.playing
    THEN LET v1 == [SetIntervalIn(v) EXCEPT !.updateInterval = v.nextHandle]
         IN  IF v1.renderFrame = NoHandle
             THEN [RequestFrame(v1) EXCEPT !.playing = TRUE]
             ELSE v1
    ELSE v

\* Verlet.play()
Verlet_play(v) ==
    IF ~v.playing
    THEN IF v.updateInterval = NoHandle
         THEN LET v1 == [SetIntervalIn(v) EXCEPT !.updateInterval = v.nextHandle]
              IN  IF v1.renderFrame = NoHandle
                  THEN [RequestFrame(v1) EXCEPT !.playing = TRUE]
                  ELSE v1
         ELSE v
    ELSE v

\* Verlet.pause()
Verlet_pause(v) ==
    IF v.playing
    THEN IF v.updateInterval # NoHandle
         THEN LET v1 == [v EXCEPT !.intervals = @ \ {v.updateInterval},
                                  !.updateInterval = NoHandle]
              IN  IF v1.renderFrame # NoHandle
                  THEN [v1 EXCEPT !.frames = @ \ {v1.renderFrame},
                                  !.renderFrame = NoHandle,
                                  !.playing = FALSE]
                  ELSE v1
         ELSE v
    ELSE v

\* set tps(t) with a number: the clamp of _tps, then restart when playing
Verlet_set_tps(v) == IF v.playing THEN Verlet_play(Verlet_pause(v)) ELSE v

\* set playing(p)
Verlet_set_playing(v, p) ==
    IF p /\ ~v.playing THEN Verlet_play(v)
    ELSE IF ~p /\ v.playing THEN Verlet_pause(v)
    ELSE v

\* set dimensions(d): a value that is not a Vector2 is refused; otherwise resize and render
Verlet_set_dimensions(v, isVector2) == IF ~isVector2 THEN v ELSE Verlet_render(v)

\* set interactable(i): i is "true", "false", or "other" for a value that is not a boolean
Verlet_set_interactable(v, i) ==
    IF i \notin {"true", "false"} THEN v
    ELSE RequestFrame([v EXCEPT !.interactable = (i = "true")])

\* new Verlet(canvas, playOnStart, tps, interactable, ...): the tps setter runs while
\* _playing is still false; _playing is then assigned playOnStart before play() is called
Verlet_constructor(playOnStart, isInteractable) ==
    LET v0 == [playing        |-> FALSE,
               updateInterval |-> NoHandle,
               renderFrame    |-> NoHandle,
               interactable   |-> TRUE,
               intervals      |-> {},
               frames         |-> {},
               nextHandle     |-> 1,
               made           |-> 0]
        v1 == Verlet_set_tps(v0)
        v2 == [v1 EXCEPT !.interactable = isInteractable,
                         !.playing = playOnStart,
                         !.updateInterval = NoHandle,
                         !.renderFrame = NoHandle]
    IN  IF v2.playing THEN Verlet_play(v2) ELSE v2

----------------------------------------------------------------------------
(* MouseInteraction.  The object is the record m: guarded tells whether the  *)
(* class is the one of MouseInteraction.js, whose getNearestPoint starts     *)
(* with the entities.size() test, or the one of the second copy of the file, *)
(* which has no such test.  mouse.position is the shared Vector2.zero object *)
(* and is only ever written in place; mouse.offset is that same object until *)
(* a mousedown replaces it (offsetShared).  style[p] is point p's style.     *)

OwnStyle(p) == [kind |-> "own", of |-> p]

FixedStyle == [kind |-> "fixed", of |-> Null]

NullStyle == [kind |-> "null", of |-> Null]

\* new MouseInteraction(simulation, renderer, interactionDistance, ...) over points ids
MouseInteraction_constructor(guarded, interactionDistance, ids) ==
    [guarded             |-> guarded,
     interactionDistance |-> interactionDistance,
     position            |-> V(0, 0),
     offsetShared        |-> TRUE,
     offset              |-> V(0, 0),
     offsetPosition      |-> V(0, 0),
     down                |-> FALSE,
     activePoint         |-> Null,
     prevFixedStyle      |-> NullStyle,
     style               |-> [p \in ids |-> OwnStyle(p)]]

\* mouse.offset
MouseOffset(m) == IF m.offsetShared THEN m.position ELSE m.offset

\* the mousedown listener, for event e with e.button = 2 or not, at (e.offsetX, e.offsetY)
MouseInteraction_mousedown(m, pts, rightClick, e) ==
    LET m1 == [m EXCEPT !.down = TRUE]
        a  == m.activePoint
    IN  IF a = Null THEN [m |-> m1, pts |-> pts]
        ELSE LET m2   == IF rightClick /\ ~pts[a].fixed
                         THEN [m1 EXCEPT !.prevFixedStyle = m.style[a]] ELSE m1
                 pts2 == IF rightClick THEN [pts EXCEPT ![a].fixed = ~pts[a].fixed] ELSE pts
                 m3   == IF rightClick
                         THEN [m2 EXCEPT !.style[a] =
                                  IF pts2[a].fixed THEN FixedStyle ELSE m2.prevFixedStyle]
                         ELSE m2
                 off  == VSub(e, pts2[a].position)
             IN  [m   |-> [m3 EXCEPT !.offsetShared = FALSE,
                                     !.offset = off,
                                     !.offsetPosition = VSub(m3.position, off)],
                  pts |-> pts2]

\* the mousemove listener, for event e at (e.offsetX, e.offsetY)
MouseInteraction_mousemove(m, e) ==
    LET m1 == [m EXCEPT !.position = e]
    IN  [m1 EXCEPT !.offsetPosition = VSub(m1.position, MouseOffset(m1))]

\* the mouseup listener
MouseInteraction_mouseup(m, pts) ==
    [m   |-> [m EXCEPT !.down = FALSE, !.activePoint = Null],
     pts |-> IF m.activePoint # Null
             THEN [pts EXCEPT ![m.activePoint] = Point_clearVelocity(pts[m.activePoint])]
             ELSE pts]

\* Vector2.Distance(a, b) < d; when the root is irrational the squares decide
DistanceLt(a, b, d) ==
    IF IsInexact(Distance(a, b))
    THEN Lt(R(0), d) /\ Lt(SqrDistance(a, b), Mul(d, d))
    ELSE Lt(Distance(a, b), d)

\* the two loops of getNearestPoint over ids, the points of all entities in iteration order
RECURSIVE MouseScan(_, _, _, _)
MouseScan(point, ids, m, pts) ==
    IF ids = <<>> THEN point
    ELSE MouseScan(IF DistanceLt(m.position, pts[Head(ids)].position, m.interactionDistance)
                   THEN Head(ids) ELSE point,
                   Tail(ids), m, pts)

\* the points of the entities of the Set ents, entity by entity; pointsOf[e] is e.points
RECURSIVE AllPoints(_, _)
AllPoints(ents, pointsOf) ==
    IF ents = <<>> THEN <<>> ELSE pointsOf[Head(ents)] \o AllPoints(Tail(ents), pointsOf)

\* MouseInteraction.getNearestPoint()
MouseInteraction_getNearestPoint(m, ents, pointsOf, pts) ==
    IF m.guarded /\ ~Callable(Set_prop(ents, "size"))
    THEN [threw |-> TRUE, point |-> Null]
    ELSE [threw |-> FALSE, point |-> MouseScan(Null, AllPoints(ents, pointsOf), m, pts)]

\* MouseInteraction.dragPoint()
MouseInteraction_dragPoint(m, pts) ==
    IF ~m.down THEN pts
    ELSE [pts EXCEPT ![m.activePoint].position = m.offsetPosition]

\* MouseInteraction.drag()
MouseInteraction_drag(m, ents, pointsOf, pts) ==
    LET r  == MouseInteraction_getNearestPoint(m, ents, pointsOf, pts)
    IN  IF ~m.down /\ r.threw THEN [m |-> m, pts |-> pts, threw |-> TRUE]
        ELSE LET m1 == IF ~m.down THEN [m EXCEPT !.activePoint = r.point] ELSE m
             IN  [m     |-> m1,
                  pts   |-> IF m1.activePoint # Null
                            THEN MouseInteraction_dragPoint(m1, pts) ELSE pts,
                  threw |-> FALSE]

----------------------------------------------------------------------------
(* Verlet.update: the simulation tick followed by the drag *)

\* for (const entity of this.entities) entity.update(bounds), each entity holding the
\* points pointsOf gives it and no spring
UpdateEach(ents, pointsOf, bounds, pts) ==
    LET After[k \in 0..Len(ents)] ==
            IF k = 0 THEN pts
            ELSE Entity_update(Entity(1, pointsOf[ents[k]], <<>>), bounds, After[k - 1], <<>>).pts
    IN  After[Len(ents)]

\* Verlet.update(): simulation.update(bounds), then mouseInteraction.drag() when
\* interactable
Verlet_update(isInteractable, m, ents, pointsOf, bounds, pts) ==
    LET u == Simulation_update(ents)
    IN  IF u.threw THEN [m |-> m, pts |-> pts, threw |-> TRUE]
        ELSE LET pts1 == UpdateEach(u.calls, pointsOf, bounds, pts)
             IN  IF isInteractable THEN MouseInteraction_drag(m, ents, pointsOf, pts1)
                 ELSE [m |-> m, pts |-> pts1, threw |-> FALSE]

----------------------------------------------------------------------------
(* Values of the variables a specification does not use *)

NoPoints == <<>>

NoSprings == <<>>

NoEntity == Entity(1, <<>>, <<>>)

NoLast == [op |-> "none", args |-> <<>>, ret |-> <<>>, threw |-> FALSE, calls |-> <<>>]

NoVerlet == Verlet_constructor(FALSE, FALSE)

NoConstrainArg == [p |-> V(0, 0), rect |-> Rect(0, 0, 1, 1), offset |-> R(0)]

KernelIdle ==
    /\ points = NoPoints
    /\ springs = NoSprings
    /\ start = <<>>
    /\ nUpd = <<>>
    /\ nSpr = <<>>

EntityIdle == entity = NoEntity /\ elog = <<>> /\ nTicks = 0

SimIdle == entities = <<>> /\ last = NoLast

VerletIdle ==
    /\ playing = NoVerlet.playing
    /\ updateInterval = NoVerlet.updateInterval
    /\ renderFrame = NoVerlet.renderFrame
    /\ interactable = NoVerlet.interactable
    /\ intervals = NoVerlet.intervals
    /\ frames = NoVerlet.frames
    /\ nextHandle = NoVerlet.nextHandle
    /\ intervalsMade = NoVerlet.made
    /\ ctorPlay = FALSE
    /\ fresh = TRUE
    /\ simObject = Null
    /\ ctorEntities = <<>>

NoConstrainRes == [done |-> FALSE, value |-> V(0, 0)]

ConstrainIdle == cArg = NoConstrainArg /\ cRes = NoConstrainRes

NoMouse == MouseInteraction_constructor(TRUE, R(1), {})

NoMouseLog == [op |-> "none", point |-> Null, threw |-> FALSE, drags |-> 0]

MouseIdle == mi = NoMouse /\ mlog = NoMouseLog

----------------------------------------------------------------------------
(* SpecKernel: two points joined by one spring; Point.update and           *)
(* Spring.update are called in any order, MaxSteps times at most.          *)

MaxSteps == 3

KPoints == {1, 2}

KSprings == {1}

KPositions ==
    { <<V(0, 0), V(12, 0)>>, <<V(10, 10), V(10, 16)>>, <<V(0, 0), V(3, 4)>>, <<V(5, 5), V(5, 5)>> }

KVelocities ==
    { <<V(0, 0), V(0, 0)>>, <<V(0, -3), V(0, 0)>>, <<V(2, 0), V(0, -3)>> }

KMasses == { <<R(1), R(1)>>, <<R(1), R(3)>> }

KFrictions == { R(0), Q(1, 2) }

KGravities == { V(0, 0), V(0, 1) }

KStiffnesses == { R(2), Q(1, 2) }

KRestLengths == { R(10), R(5) }

KSize == R(5)

InitKernel ==
    /\ \E fx \in [KPoints -> BOOLEAN], pos \in KPositions, vel \in KVelocities,
          m \in KMasses, fr \in [KPoints -> KFrictions], g \in KGravities,
          k \in KStiffnesses, rl \in KRestLengths :
          LET pts == [p \in KPoints |-> Point(fx[p], pos[p], vel[p], m[p], fr[p], g, KSize)]
          IN  /\ points = pts
              /\ springs = [s \in KSprings |-> Spring(1, 2, k, rl, pts)]
              /\ start = [p \in KPoints |-> [position |-> pts[p].position, dpos |-> pts[p].dpos]]
    /\ nUpd = [p \in KPoints |-> 0]
    /\ nSpr = [s \in KSprings |-> 0]
    /\ EntityIdle /\ SimIdle /\ VerletIdle /\ MouseIdle /\ ConstrainIdle

KSteps == nUpd[1] + nUpd[2] + nSpr[1]

\* p.update()
PointUpdate(p) ==
    /\ KSteps < MaxSteps
    /\ points' = [points EXCEPT ![p] = Point_update(@)]
    /\ nUpd' = [nUpd EXCEPT ![p] = @ + 1]
    /\ UNCHANGED <<springs, start, nSpr>>
    /\ UNCHANGED <<entityVars, simVars, verletVars, mouseVars, constrainVars>>

\* s.update()
SpringUpdate(s) ==
    /\ KSteps < MaxSteps
    /\ Exact(Spring_update(springs[s], points))
    /\ points' = Spring_update(springs[s], points)
    /\ nSpr' = [nSpr EXCEPT ![s] = @ + 1]
    /\ UNCHANGED <<springs, start, nUpd>>
    /\ UNCHANGED <<entityVars, simVars, verletVars, mouseVars, constrainVars>>

NextKernel ==
    \/ \E p \in KPoints : PointUpdate(p)
    \/ \E s \in KSprings : SpringUpdate(s)

SpecKernel == InitKernel /\ [][NextKernel]_vars

----------------------------------------------------------------------------
(* Claims about the kernel, checked under SpecKernel *)

\* C1: a point with fixed = true keeps the position it was constructed with through
\* every sequence of Point.update() calls on it and Spring.update() calls on the
\* spring incident to it, whatever its previous position, gravity, mass, friction
\* and the state of the other endpoint.
C1_FixedPointNeverMoves ==
    \A p \in DOMAIN points :
        points[p].fixed => points[p].position = start[p].position

\* a fixed point with an implicit velocity and a gravity has been updated, and the
\* incident spring has been relaxed while it pulled: it moved the free endpoint
C1_Witness ==
    \E p \in DOMAIN points : \E q \in DOMAIN points :
        /\ p # q
        /\ points[p].fixed
        /\ ~points[q].fixed
        /\ points[p].dpos # points[p].position
        /\ ~IsZero(points[p].gravity)
        /\ nUpd[p] >= 1
        /\ nSpr[1] >= 1
        /\ nUpd[q] = 0
        /\ points[q].position # start[q].position

\* the displacement Point.update() is to give a free point on one axis:
\* old + (old - oldPrevious) * (1 - friction) + acceleration
VerletAxis(old, oldPrevious, friction, acceleration) ==
    Add(Add(old, Mul(Sub(old, oldPrevious), Sub(R(1), friction))), acceleration)

\* every Point.update() of a free point follows the rule
C5_UpdateRule ==
    \A p \in DOMAIN points :
        (nUpd'[p] = nUpd[p] + 1 /\ ~points[p].fixed) =>
            /\ points'[p].dpos = points[p].position
            /\ points'[p].position.x =
                   VerletAxis(points[p].position.x, points[p].dpos.x,
                              points[p].friction, points[p].gravity.x)
            /\ points'[p].position.y =
                   VerletAxis(points[p].position.y, points[p].dpos.y,
                              points[p].friction, points[p].gravity.y)

\* a free point constructed at rest at (10,10) with friction 0 and acceleration (0,1),
\* touched by Point.update() only
C5_AtRestAt1010(p) ==
    /\ start[p].position = V(10, 10)
    /\ start[p].dpos = V(10, 10)
    /\ ~points[p].fixed
    /\ points[p].friction = R(0)
    /\ points[p].gravity = V(0, 1)
    /\ nSpr[1] = 0

C5_Trajectory ==
    \A p \in DOMAIN points :
        C5_AtRestAt1010(p) =>
            /\ nUpd[p] = 1 => points[p].position = V(10, 11)
            /\ nUpd[p] = 2 => points[p].position = V(10, 13)
            /\ nUpd[p] = 3 => points[p].position = V(10, 16)

\* C5: one Point.update() of a non-fixed point sets previousPosition to the pre-call
\* position and position to old + (old - oldPrevious)*(1 - friction) + acceleration,
\* friction scaling the velocity term only; so a point at rest at (10,10) with
\* friction 0 and acceleration (0,1) is at (10,11), (10,13), (10,16) after updates
\* 1, 2, 3.
C5_VerletStep == [][C5_UpdateRule]_vars /\ []C5_Trajectory

\* the point of the example has been updated three times and is at (10,16)
C5_Witness ==
    \E p \in DOMAIN points :
        C5_AtRestAt1010(p) /\ nUpd[p] = 3 /\ points[p].position = V(10, 16)

\* one pass of spring s moved the points as the claim's formula says
C6_PassRule(s) ==
    LET a      == points[springs[s].a]
        b      == points[springs[s].b]
        a2     == points'[springs[s].a]
        b2     == points'[springs[s].b]
        dist   == Distance(a.position, b.position)
        factor == Mul(Mul(Div(Sub(springs[s].restLength, dist), dist),
                          springs[s].stiffness), Q(1, 2))
        offset == VMul(VSub(b.position, a.position), factor)
        total  == Add(a.mass, b.mass)
    IN  (IsFinite(dist) /\ Gt(dist, R(0))) =>
            /\ a2.position = IF a.fixed THEN a.position
                             ELSE VSub(a.position, VMul(offset, Div(b.mass, total)))
            /\ b2.position = IF b.fixed THEN b.position
                             ELSE VAdd(b.position, VMul(offset, Div(a.mass, total)))

\* the example: a fixed at (0,0), b free at (12,0), restLength 10, stiffness 2,
\* both masses 1, and exactly one pass made, nothing else
C6_Example ==
    /\ start[1].position = V(0, 0)
    /\ start[2].position = V(12, 0)
    /\ points[1].fixed
    /\ ~points[2].fixed
    /\ points[1].mass = R(1)
    /\ points[2].mass = R(1)
    /\ springs[1].restLength = R(10)
    /\ springs[1].stiffness = R(2)
    /\ nUpd[1] = 0
    /\ nUpd[2] = 0
    /\ nSpr[1] = 1

\* C6: one Spring.update() with dist > 0 computes
\* offset = (b - a) * ((restLength - dist)/dist * stiffness * 0.5), moves a by
\* -offset * massB/(massA+massB) and b by +offset * massA/(massA+massB), and skips
\* a fixed endpoint; in the example a stays at (0,0) and b lands on (11,0).
C6_SpringPass ==
    /\ [][\A s \in DOMAIN springs : nSpr'[s] = nSpr[s] + 1 => C6_PassRule(s)]_vars
    /\ [](C6_Example => points[1].position = V(0, 0) /\ points[2].position = V(11, 0))

\* the example has run: b stands on (11,0)
C6_Witness == C6_Example /\ points[2].position = V(11, 0)

----------------------------------------------------------------------------
(* SpecConstrain: Rectangle.Constrain applied once to arguments drawn from  *)
(* rectangles of positive, zero and negative size, offsets below, inside    *)
(* and above min(w,h)/2, and points on a half-unit grid around them.        *)

MaxCoord == 8

CRects ==
    { [x |-> R(o[1]), y |-> R(o[2]), w |-> R(sz[1]), h |-> R(sz[2])] :
        o \in { <<-2, 0>>, <<1, 3>> },
        sz \in { <<4, 6>>, <<7, 4>>, <<0, 0>>, <<-3, 4>>, <<4, 0>>, <<5, 5>> } }

COffsets == { R(-1), R(0), Q(1, 2), R(1), R(2), Q(5, 2), Q(7, 2) }

CCoords == { Q(i, 2) : i \in (-MaxCoord)..(2 * MaxCoord) }

InitConstrain ==
    /\ \E r \in CRects, o \in COffsets, x \in CCoords, y \in CCoords :
          cArg = [p |-> Vec(x, y), rect |-> r, offset |-> o]
    /\ cRes = NoConstrainRes
    /\ KernelIdle /\ EntityIdle /\ SimIdle /\ VerletIdle /\ MouseIdle

\* rect.constrain(p, offset)
Constrain ==
    /\ ~cRes.done
    /\ cRes' = [done |-> TRUE,
                value |-> Rectangle_Constrain(cArg.p, cArg.rect, cArg.offset)]
    /\ UNCHANGED <<cArg, kernelVars, entityVars, simVars, verletVars, mouseVars>>

NextConstrain == Constrain

SpecConstrain == InitConstrain /\ [][NextConstrain]_vars

\* the offset is one the claim covers: 0 <= offset <= min(w,h)/2
C7_OffsetInRange ==
    /\ Le(R(0), cArg.offset)
    /\ Le(Mul(cArg.offset, R(2)), JSMin(cArg.rect.w, cArg.rect.h))

\* C7: for any rectangle (x, y, w, h), any offset with 0 <= offset <= min(w,h)/2 and
\* any point p, Rectangle.constrain(p, offset) returns r with
\* x+offset <= r.x <= x+w-offset and y+offset <= r.y <= y+h-offset, and a coordinate
\* of p already inside its interval is returned unchanged.
C7_ConstrainInsideInset ==
    (cRes.done /\ C7_OffsetInRange) =>
        LET r    == cRes.value
            p    == cArg.p
            xlo  == Add(cArg.rect.x, cArg.offset)
            xhi  == Sub(Add(cArg.rect.x, cArg.rect.w), cArg.offset)
            ylo  == Add(cArg.rect.y, cArg.offset)
            yhi  == Sub(Add(cArg.rect.y, cArg.rect.h), cArg.offset)
        IN  /\ Le(xlo, r.x) /\ Le(r.x, xhi)
            /\ Le(ylo, r.y) /\ Le(r.y, yhi)
            /\ (Le(xlo, p.x) /\ Le(p.x, xhi)) => r.x = p.x
            /\ (Le(ylo, p.y) /\ Le(p.y, yhi)) => r.y = p.y

\* a point right of and above an inset rectangle has been clamped on both axes
C7_Witness ==
    /\ cRes.done
    /\ C7_OffsetInRange
    /\ Gt(cArg.offset, R(0))
    /\ Gt(cArg.p.x, Add(cArg.rect.x, cArg.rect.w))
    /\ Lt(cArg.p.y, cArg.rect.y)
    /\ cRes.value.x = Sub(Add(cArg.rect.x, cArg.rect.w), cArg.offset)
    /\ cRes.value.y = Add(cArg.rect.y, cArg.offset)

----------------------------------------------------------------------------
(* SpecEntity: one Entity over three points hanging in a column and two     *)
(* springs between them; Entity.update(bounds) is called MaxTicks times at  *)
(* most, with any of the rectangles of EBounds.                             *)

MaxTicks == 2

MaxIterations == 2

EPoints == {1, 2, 3}

ESprings == {1, 2}

EPointSets == { <<>>, <<1>>, <<1, 2>>, <<2, 1>>, <<1, 2, 3>>, <<3, 1, 2>> }

ESpringSets == { <<>>, <<1>>, <<1, 2>>, <<2, 1>> }

EBounds == { Rect(0, 0, 10, 10), Rect(0, 0, 10, 20), Rect(2, 3, 6, 5) }

ESize == R(1)

EPositions == <<V(5, 2), V(5, 5), V(5, 9)>>

\* the rest length of the first spring: the distance of its endpoints, or shorter
ERestLengths == { R(3), R(2) }

InitEntity ==
    /\ \E fx \in BOOLEAN, fr \in KFrictions, rl \in ERestLengths :
          LET pts == [p \in EPoints |->
                         Point(p = 1 /\ fx, EPositions[p], V(0, 0), R(1), fr, V(0, 1), ESize)]
          IN  /\ points = pts
              /\ springs = [s \in ESprings |->
                               IF s = 1 THEN Spring(1, 2, R(2), rl, pts)
                               ELSE Spring(2, 3, R(4), R(-1), pts)]
              /\ start = [p \in EPoints |-> [position |-> pts[p].position, dpos |-> pts[p].dpos]]
    /\ nUpd = [p \in EPoints |-> 0]
    /\ nSpr = [s \in ESprings |-> 0]
    /\ \E it \in 1..MaxIterations, ps \in EPointSets, ss \in ESpringSets :
          entity = Entity(it, ps, ss)
    /\ elog = <<>>
    /\ nTicks = 0
    /\ SimIdle /\ VerletIdle /\ MouseIdle /\ ConstrainIdle

\* entity.update(bounds)
EntityUpdate(bounds) ==
    /\ nTicks < MaxTicks
    /\ LET r == Entity_update(entity, bounds, points, springs)
       IN  /\ Exact(r.pts)
           /\ points' = r.pts
           /\ elog' = r.log
    /\ nTicks' = nTicks + 1
    /\ UNCHANGED <<springs, start, nUpd, nSpr, entity>>
    /\ UNCHANGED <<simVars, verletVars, mouseVars, constrainVars>>

NextEntity == \E b \in EBounds : EntityUpdate(b)

SpecEntity == InitEntity /\ [][NextEntity]_vars

\* C2: on an entity with at least one point and one spring, one Entity.update(bounds)
\* calls Point.update exactly once on every point and clamps it, and only then runs
\* exactly `iterations` passes, each first clamping every point and then calling
\* Spring.update exactly once on every spring; no spring is relaxed before every
\* point has been integrated, and the number of passes does not depend on convergence.
C2_UpdatePipeline ==
    LET P    == entity.points
        S    == entity.springs
        np   == Len(P)
        ns   == Len(S)
        base == 2 * np
        pass == np + ns
    IN  (nTicks >= 1 /\ np >= 1 /\ ns >= 1) =>
            /\ Len(elog) = base + entity.iterations * pass
            /\ \A i \in 1..np :
                   /\ elog[2 * i - 1] = Call("Point.update", P[i])
                   /\ elog[2 * i] = Call("constrain", P[i])
            /\ \A j \in 0..(entity.iterations - 1) :
                   /\ \A i \in 1..np : elog[base + j * pass + i] = Call("constrain", P[i])
                   /\ \A i \in 1..ns : elog[base + j * pass + np + i] = Call("Spring.update", S[i])

\* an update of three points and two springs with two passes has run and moved a point
C2_Witness ==
    /\ nTicks >= 1
    /\ Len(entity.points) = 3
    /\ Len(entity.springs) = 2
    /\ entity.iterations = 2
    /\ Len(elog) = 16
    /\ \E p \in EPoints : points[p].position # start[p].position

----------------------------------------------------------------------------
(* SpecSim: one Simulation; addEntity, removeEntity, the variadic forms    *)
(* with up to MaxArgs arguments and update are called in any order.        *)

MaxArgs == 2

SEntities == {1, 2, 3}

SInitial == { <<>>, <<1>>, <<2, 1>>, <<3, 1, 2>> }

\* the argument lists of a variadic call: entities and null references, repeats allowed
SArgs == UNION { [1..n -> SEntities \cup {Null}] : n \in 0..MaxArgs }

SBounds == Rect(0, 0, 10, 10)

InitSim ==
    /\ entities \in SInitial
    /\ last = NoLast
    /\ KernelIdle /\ EntityIdle /\ VerletIdle /\ MouseIdle /\ ConstrainIdle

Returned(op, args, ret) ==
    [op |-> op, args |-> args, ret |-> ret, threw |-> FALSE, calls |-> <<>>]

\* simulation.addEntity(e)
AddEntity(e) ==
    /\ LET r == Simulation_addEntity(entities, e)
       IN  /\ entities' = r.set
           /\ last' = Returned("addEntity", <<e>>, <<r.ret>>)
    /\ UNCHANGED <<kernelVars, entityVars, verletVars, mouseVars, constrainVars>>

\* simulation.removeEntity(e)
RemoveEntity(e) ==
    /\ LET r == Simulation_removeEntity(entities, e)
       IN  /\ entities' = r.set
           /\ last' = Returned("removeEntity", <<e>>, <<r.ret>>)
    /\ UNCHANGED <<kernelVars, entityVars, verletVars, mouseVars, constrainVars>>

\* simulation.addEntities(...es)
AddEntities(es) ==
    /\ LET r == Simulation_addEntities(entities, es)
       IN  /\ entities' = r.set
           /\ last' = Returned("addEntities", es, r.ret)
    /\ UNCHANGED <<kernelVars, entityVars, verletVars, mouseVars, constrainVars>>

\* simulation.removeEntities(...es)
RemoveEntities(es) ==
    /\ LET r == Simulation_removeEntities(entities, es)
       IN  /\ entities' = r.set
           /\ last' = Returned("removeEntities", es, r.ret)
    /\ UNCHANGED <<kernelVars, entityVars, verletVars, mouseVars, constrainVars>>

\* simulation.update(bounds)
SimUpdate ==
    /\ LET r == Simulation_update(entities)
       IN  last' = [op |-> "update", args |-> <<>>, ret |-> <<>>,
                    threw |-> r.threw, calls |-> r.calls]
    /\ UNCHANGED <<entities, kernelVars, entityVars, verletVars, mouseVars, constrainVars>>

NextSim ==
    \/ \E e \in SEntities \cup {Null} : AddEntity(e)
    \/ \E e \in SEntities \cup {Null} : RemoveEntity(e)
    \/ \E es \in SArgs : AddEntities(es)
    \/ \E es \in SArgs : RemoveEntities(es)
    \/ SimUpdate

SpecSim == InitSim /\ [][NextSim]_vars

\* C3: for a Simulation holding any set of entities, the empty one included,
\* Simulation.update(bounds) completes without raising an error and invokes
\* update(bounds) exactly once on each member entity and on no other entity.
C3_UpdateForwards ==
    last.op = "update" =>
        /\ ~last.threw
        /\ Len(last.calls) = Len(entities)
        /\ \A e \in Members(entities) : \E i \in 1..Len(last.calls) : last.calls[i] = e
        /\ \A i \in 1..Len(last.calls) : last.calls[i] \in Members(entities)

NoDuplicates(set) == \A i, j \in 1..Len(set) : set[i] = set[j] => i = j

\* what a call that has just returned must have returned and done
C4_CallRule ==
    LET before == Members(entities)
        after  == Members(entities')
        args   == last'.args
        ret    == last'.ret
        given  == {args[i] : i \in 1..Len(args)}
    IN  /\ last'.op = "addEntity" =>
               /\ ret = << args[1] # Null /\ args[1] \notin before >>
               /\ ret[1] => after = before \cup {args[1]}
               /\ ~ret[1] => entities' = entities
        /\ last'.op = "removeEntity" =>
               /\ ret = << args[1] \in before >>
               /\ after = before \ {args[1]}
        /\ last'.op = "addEntities" =>
               /\ Len(ret) = Len(args)
               /\ \A i \in 1..Len(args) :
                      ret[i] = ( /\ args[i] # Null
                                 /\ args[i] \notin before
                                 /\ \A j \in 1..(i - 1) : args[j] # args[i] )
               /\ after = before \cup (given \ {Null})
               /\ args = <<>> => (ret = <<>> /\ entities' = entities)
        /\ last'.op = "removeEntities" =>
               /\ Len(ret) = Len(args)
               /\ \A i \in 1..Len(args) :
                      ret[i] = ( /\ args[i] \in before
                                 /\ \A j \in 1..(i - 1) : args[j] # args[i] )
               /\ after = before \ given
               /\ args = <<>> => (ret = <<>> /\ entities' = entities)

\* C4: across any sequence of addEntity/removeEntity/addEntities/removeEntities calls,
\* addEntity(e) returns true exactly when e is non-null and not a member (and e is a
\* member afterwards) and otherwise returns false and changes nothing; removeEntity(e)
\* returns true iff e was a member; the collection never holds an entity twice; the
\* variadic forms return the per-item booleans in input order as if the items were
\* applied one at a time left to right, and an empty sequence when given no arguments.
C4_SetMembership == [][C4_CallRule]_vars /\ []NoDuplicates(entities)

\* a variadic add of a repeated new entity returned <<TRUE, FALSE>> and added it once
C4_Witness ==
    /\ last.op = "addEntities"
    /\ Len(last.args) = 2
    /\ last.args[1] = last.args[2]
    /\ last.ret = <<TRUE, FALSE>>
    /\ Len(entities) >= 2
    /\ Has(entities, last.args[1])

----------------------------------------------------------------------------
(* SpecVerlet: one Verlet object, constructed with either playOnStart and  *)
(* either interactable and no entities; its methods and setters are called *)
(* in any order while the browser fires pending animation frames and tick  *)
(* timers.  The browser hands out MaxHandles handles at most.              *)

MaxHandles == 5

VEntities == {1, 2}

VArgs == { <<>>, <<1>>, <<2>>, <<1, 2>> }

\* the Verlet object as a record
VerletNow ==
    [playing        |-> playing,
     updateInterval |-> updateInterval,
     renderFrame    |-> renderFrame,
     interactable   |-> interactable,
     intervals      |-> intervals,
     frames         |-> frames,
     nextHandle     |-> nextHandle,
     made           |-> intervalsMade]

\* the Verlet object becomes v; the browser has handles left for what v holds
Becomes(v) ==
    /\ v.nextHandle <= MaxHandles + 1
    /\ playing' = v.playing
    /\ updateInterval' = v.updateInterval
    /\ renderFrame' = v.renderFrame
    /\ interactable' = v.interactable
    /\ intervals' = v.intervals
    /\ frames' = v.frames
    /\ nextHandle' = v.nextHandle
    /\ intervalsMade' = v.made
    /\ fresh' = FALSE
    /\ UNCHANGED <<ctorPlay, simObject, ctorEntities>>

InitVerlet ==
    /\ \E playOnStart \in BOOLEAN, isInteractable \in BOOLEAN :
          LET v == Verlet_constructor(playOnStart, isInteractable)
          IN  /\ playing = v.playing
              /\ updateInterval = v.updateInterval
              /\ renderFrame = v.renderFrame
              /\ interactable = v.interactable
              /\ intervals = v.intervals
              /\ frames = v.frames
              /\ nextHandle = v.nextHandle
              /\ intervalsMade = v.made
              /\ ctorPlay = playOnStart
    /\ fresh = TRUE
    /\ \E es \in VArgs :
          LET sim == Simulation_constructor(es)
          IN  /\ ctorEntities = es
              /\ simObject = sim.obj
              /\ entities = sim.set
    /\ last = NoLast
    /\ KernelIdle /\ EntityIdle /\ MouseIdle /\ ConstrainIdle

VerletOnly == UNCHANGED <<simVars, kernelVars, entityVars, mouseVars, constrainVars>>

\* v.play()
Play == Becomes(Verlet_play(VerletNow)) /\ VerletOnly

\* v.pause()
Pause == Becomes(Verlet_pause(VerletNow)) /\ VerletOnly

\* v.tps = t, t a number
SetTps == Becomes(Verlet_set_tps(VerletNow)) /\ VerletOnly

\* v.playing = p
SetPlaying(p) == Becomes(Verlet_set_playing(VerletNow, p)) /\ VerletOnly

\* v.dimensions = d
SetDimensions(isVector2) == Becomes(Verlet_set_dimensions(VerletNow, isVector2)) /\ VerletOnly

\* v.interactable = i
SetInteractable(i) == Becomes(Verlet_set_interactable(VerletNow, i)) /\ VerletOnly

\* v.render(), called directly
Render == Becomes(Verlet_render(VerletNow)) /\ VerletOnly

\* v.add(...es): simulation.addEntities(...es), then render()
VerletAdd(es) ==
    /\ LET r == Simulation_addEntities_on(simObject, entities, es)
       IN  /\ entities' = r.set
           /\ last' = [Returned("addEntities", es, r.ret) EXCEPT !.threw = r.threw]
           /\ Becomes(IF r.threw THEN VerletNow ELSE Verlet_render(VerletNow))
    /\ UNCHANGED <<kernelVars, entityVars, mouseVars, constrainVars>>

\* the browser runs the pending animation-frame callback h: render()
FrameFires(h) ==
    /\ h \in frames
    /\ Becomes(Verlet_render([VerletNow EXCEPT !.frames = @ \ {h}]))
    /\ VerletOnly

\* the browser runs the tick of the active timer h: Verlet.update(), whose first
\* statement is simulation.update(bounds); mouseInteraction.drag() follows when it returns
IntervalFires(h) ==
    /\ h \in intervals
    /\ LET r == IF simObject # Null /\ ~Callable(Entity_prop("size"))
                THEN [threw |-> TRUE, calls |-> <<>>]
                ELSE Simulation_update(entities)
       IN  last' = [op |-> "update", args |-> <<>>, ret |-> <<>>,
                    threw |-> r.threw, calls |-> r.calls]
    /\ Becomes(VerletNow)
    /\ UNCHANGED <<entities, kernelVars, entityVars, mouseVars, constrainVars>>

NextVerlet ==
    \/ Play
    \/ Pause
    \/ SetTps
    \/ \E p \in BOOLEAN : SetPlaying(p)
    \/ \E d \in BOOLEAN : SetDimensions(d)
    \/ \E i \in {"true", "false", "other"} : SetInteractable(i)
    \/ Render
    \/ \E es \in VArgs : VerletAdd(es)
    \/ \E h \in frames : FrameFires(h)
    \/ \E h \in intervals : IntervalFires(h)

SpecVerlet == InitVerlet /\ [][NextVerlet]_vars

\* C8: in any sequence of constructor, play(), pause(), tps =, playing =,
\* interactable =, add() and dimensions = calls, at most one setInterval update timer
\* is active at any time, and a call that creates a new one leaves none of the
\* timers that were active before it still active.
C8_OneUpdateInterval ==
    /\ [](Cardinality(intervals) <= 1)
    /\ [][intervalsMade' # intervalsMade => intervals \cap intervals' = {}]_vars

\* a second update interval has been created after the first was cleared, and runs alone
C8_Witness == intervalsMade >= 2 /\ Cardinality(intervals) = 1 /\ playing

C10_PlayOnStartStarts ==
    (fresh /\ ctorPlay) =>
        /\ playing
        /\ updateInterval \in intervals
        /\ renderFrame \in frames

\* C11: every entity passed as a trailing ...entities argument to the Verlet
\* constructor is a member of simulation.entities when the constructor returns,
\* simulation.entities is a Set, and with no entities passed it is the empty Set.
C11_CtorEntitiesSimulated ==
    fresh =>
        /\ simObject = Null
        /\ \A i \in 1..Len(ctorEntities) : Has(entities, ctorEntities[i])
        /\ (ctorEntities = <<>> => entities = <<>>)

----------------------------------------------------------------------------
(* SpecMouse: a MouseInteraction over a simulation of up to two entities,  *)
(* entity 1 with point 1, entity 2 with point 2.  The browser sends mouse  *)
(* events, drag() and getNearestPoint() are called, and points are         *)
(* integrated, in any order; MaxMouseTicks bounds the Point.update calls   *)
(* and MaxDrags the drag() calls that move a point.                        *)

MaxMouseTicks == 1

MaxDrags == 1

MPoints == {1, 2}

\* entity id -> the points of the entity, in insertion order
MPointsOf == << <<1>>, <<2>> >>

MCoords == { V(0, 0), V(1, 1) }

MDistances == { R(2) }

InitMouse ==
    /\ points = << Point(TRUE, V(1, 0), V(0, 0), R(1), R(0), V(0, 0), R(1)),
                   Point(FALSE, V(0, 0), V(1, 0), R(1), Q(1, 2), V(0, 1), R(1)) >>
    /\ entities \in { <<>>, <<1, 2>> }
    /\ \E guarded \in BOOLEAN, d \in MDistances :
          mi = MouseInteraction_constructor(guarded, d, MPoints)
    /\ mlog = NoMouseLog
    /\ last = NoLast
    /\ springs = NoSprings /\ start = <<>> /\ nUpd = <<>> /\ nSpr = <<>>
    /\ EntityIdle /\ VerletIdle /\ ConstrainIdle

MouseOnly ==
    UNCHANGED <<springs, start, nUpd, nSpr, entities, last, entity, elog, verletVars, constrainVars>>

MouseLog(op, point, threw) == [op |-> op, point |-> point, threw |-> threw, drags |-> mlog.drags]

\* the browser dispatches mousemove at e
MouseMove(e) ==
    /\ mi' = MouseInteraction_mousemove(mi, e)
    /\ mlog' = MouseLog("event", Null, FALSE)
    /\ UNCHANGED <<points, nTicks>>
    /\ MouseOnly

\* the browser dispatches mousedown, with the right button or another, at the place
\* the last mousemove reported
MouseDown(rightClick) ==
    /\ LET r == MouseInteraction_mousedown(mi, points, rightClick, mi.position)
       IN  mi' = r.m /\ points' = r.pts
    /\ mlog' = MouseLog("event", Null, FALSE)
    /\ UNCHANGED nTicks
    /\ MouseOnly

\* the browser dispatches mouseup
MouseUp ==
    /\ LET r == MouseInteraction_mouseup(mi, points)
       IN  mi' = r.m /\ points' = r.pts
    /\ mlog' = MouseLog("mouseup", mi.activePoint, FALSE)
    /\ UNCHANGED nTicks
    /\ MouseOnly

\* mouseInteraction.drag()
MouseDrag ==
    /\ LET r == MouseInteraction_drag(mi, entities, MPointsOf, points)
       IN  /\ r.pts # points => mlog.drags < MaxDrags
           /\ mi' = r.m /\ points' = r.pts
           /\ mlog' = [MouseLog("drag", r.m.activePoint, r.threw)
                          EXCEPT !.drags = IF r.pts # points THEN @ + 1 ELSE @]
    /\ UNCHANGED nTicks
    /\ MouseOnly

\* mouseInteraction.getNearestPoint()
GetNearestPoint ==
    /\ LET r == MouseInteraction_getNearestPoint(mi, entities, MPointsOf, points)
       IN  mlog' = MouseLog("getNearestPoint", r.point, r.threw)
    /\ UNCHANGED <<mi, points, nTicks>>
    /\ MouseOnly

\* p.clearVelocity()
ClearVelocity(p) ==
    /\ points' = [points EXCEPT ![p] = Point_clearVelocity(points[p])]
    /\ mlog' = MouseLog("clearVelocity", p, FALSE)
    /\ UNCHANGED <<mi, nTicks>>
    /\ MouseOnly

\* p.update()
MousePointUpdate(p) ==
    /\ nTicks < MaxMouseTicks
    /\ points' = [points EXCEPT ![p] = Point_update(points[p])]
    /\ nTicks' = nTicks + 1
    /\ mlog' = MouseLog("update", p, FALSE)
    /\ UNCHANGED mi
    /\ MouseOnly

NextMouse ==
    \/ \E e \in MCoords : MouseMove(e)
    \/ \E rightClick \in BOOLEAN : MouseDown(rightClick)
    \/ MouseUp
    \/ MouseDrag
    \/ GetNearestPoint
    \/ \E p \in MPoints : ClearVelocity(p)
    \/ \E p \in MPoints : MousePointUpdate(p)

SpecMouse == InitMouse /\ [][NextMouse]_vars

\* SpecRelease: the same MouseInteraction driven with the left button only, so that
\* no point is pinned or unpinned: points are hovered, grabbed, dragged, released
\* and integrated
NextRelease ==
    \/ \E e \in MCoords : MouseMove(e)
    \/ MouseDown(FALSE)
    \/ MouseUp
    \/ MouseDrag
    \/ \E p \in MPoints : ClearVelocity(p)
    \/ \E p \in MPoints : MousePointUpdate(p)

SpecRelease == InitMouse /\ [][NextRelease]_vars

\* the points getNearestPoint looks at, and those of them within interactionDistance
MouseCandidates == { AllPoints(entities, MPointsOf)[i] : i \in 1..Len(AllPoints(entities, MPointsOf)) }

MouseInRange ==
    { p \in MouseCandidates : DistanceLt(mi.position, points[p].position, mi.interactionDistance) }

\* C12: getNearestPoint() never raises; it returns null when no point of any entity
\* is strictly within interactionDistance of the mouse position, and otherwise a
\* point within interactionDistance whose distance to the mouse is minimal.
C12_NearestPoint ==
    mlog.op = "getNearestPoint" =>
        /\ ~mlog.threw
        /\ (MouseInRange = {} => mlog.point = Null)
        /\ (MouseInRange # {} =>
               /\ mlog.point \in MouseInRange
               /\ \A q \in MouseInRange :
                     ~Lt(SqrDistance(mi.position, points[q].position),
                         SqrDistance(mi.position, points[mlog.point].position)))

\* a step that is p.update() on the non-fixed point p, taken while the velocity of p is clear
UpdateAfterClear(p) ==
    /\ mlog'.op = "update"
    /\ mlog'.point = p
    /\ ~points[p].fixed
    /\ points[p].dpos = points[p].position

\* C14: clearVelocity() on a point, called directly or by the mouseup listener on
\* the active point, leaves its previous position equal to its position, whatever
\* its earlier motion or drag displacement; and the next update() of a non-fixed
\* point in that condition moves it by exactly its gravity vector.
C14_ClearVelocity ==
    /\ [](\A p \in MPoints :
             (mlog.op \in {"clearVelocity", "mouseup"} /\ mlog.point = p)
                 => points[p].dpos = points[p].position)
    /\ [][\A p \in MPoints :
             UpdateAfterClear(p) =>
                 /\ points'[p].position = VAdd(points[p].position, points[p].gravity)
                 /\ points'[p].dpos = points[p].position]_vars

\* a point that was dragged away while moving, then released, has just been updated
C14_Witness ==
    /\ mlog.op = "update"
    /\ mlog.drags >= 1
    /\ \E p \in MPoints :
          /\ mlog.point = p
          /\ ~points[p].fixed
          /\ points[p].position = VAdd(points[p].dpos, points[p].gravity)
          /\ points[p].dpos \notin {V(0, 0), V(1, 0)}
          /\ ~IsZero(points[p].gravity)

----------------------------------------------------------------------------
(* SpecClamp: a Point and a Spring are constructed with any numbers for    *)
(* mass, friction and stiffness, and the three setters are then assigned   *)
(* any numbers, in any order.                                              *)

\* the numbers given to the constructors and setters
ClampInputs ==
    { NaN, NegInf, PosInf, R(-3), R(-1), Q(-1, 2), R(0), Q(1, 4), Q(1, 2), R(1), R(2), R(5) }

InitClamp ==
    /\ \E m \in ClampInputs, f \in ClampInputs :
          points = << Point(FALSE, V(0, 0), V(0, 0), m, f, V(0, 1), R(1)),
                      Point(FALSE, V(3, 0), V(0, 0), R(1), R(0), V(0, 1), R(1)) >>
    /\ \E st \in ClampInputs : springs = << Spring(1, 2, st, R(3), points) >>
    /\ start = <<>> /\ nUpd = <<>> /\ nSpr = <<>>
    /\ EntityIdle /\ SimIdle /\ VerletIdle /\ MouseIdle /\ ConstrainIdle

ClampOnly ==
    UNCHANGED <<start, nUpd, nSpr, entityVars, simVars, verletVars, mouseVars, constrainVars>>

\* p.mass = m
SetMass(m) ==
    /\ points' = [points EXCEPT ![1] = Point_set_mass(points[1], m)]
    /\ UNCHANGED springs
    /\ ClampOnly

\* p.friction = f
SetFriction(f) ==
    /\ points' = [points EXCEPT ![1] = Point_set_friction(points[1], f)]
    /\ UNCHANGED springs
    /\ ClampOnly

\* s.stiffness = st
SetStiffness(st) ==
    /\ springs' = [springs EXCEPT ![1] = Spring_set_stiffness(springs[1], st)]
    /\ UNCHANGED points
    /\ ClampOnly

NextClamp ==
    \/ \E m \in ClampInputs : SetMass(m)
    \/ \E f \in ClampInputs : SetFriction(f)
    \/ \E st \in ClampInputs : SetStiffness(st)

SpecClamp == InitClamp /\ [][NextClamp]_vars

\* C13: after any constructor call or setter assignment with any number, the stored
\* mass lies in (EPSILON, MAX_VALUE], the stored friction in [0, 1], the stored
\* stiffness is > 0, and none of them is NaN.
C13_StoredInInterval ==
    /\ ~IsNaN(points[1].mass)
    /\ Lt(EPSILON, points[1].mass)
    /\ points[1].mass # PosInf
    /\ Le(R(0), points[1].friction)
    /\ Le(points[1].friction, R(1))
    /\ Lt(R(0), springs[1].stiffness)

\* C15: Entity.update(bounds) on an entity whose point set is empty is a no-op: it
\* makes no call and changes no point's position or previous position, the endpoints
\* of the springs registered in the entity included.
C15_NoPointsNoOp ==
    (nTicks >= 1 /\ entity.points = <<>>) =>
        /\ elog = <<>>
        /\ \A p \in EPoints :
              /\ points[p].position = start[p].position
              /\ points[p].dpos = start[p].dpos

\* a step that is s.update()
IsSpringUpdate(s) == nSpr'[s] = nSpr[s] + 1

VIsFinite(v) == IsFinite(v.x) /\ IsFinite(v.y)

\* C16: Spring.update() on a spring whose two endpoints are at the same position
\* (dist = 0) leaves both endpoint positions finite numbers, never NaN.
C16_CoincidentEndpoints ==
    [][\A s \in KSprings :
          (IsSpringUpdate(s) /\ points[springs[s].a].position = points[springs[s].b].position)
              => /\ VIsFinite(points'[springs[s].a].position)
                 /\ VIsFinite(points'[springs[s].b].position)]_vars

----------------------------------------------------------------------------
(* SpecCtor: Point, Spring and Entity are constructed with structural      *)
(* arguments of any type.  An argument is named by its type; `last` keeps  *)
(* the constructor call, whether it raised, and what the object holds.     *)

\* the types of the values passed: instances of the library's classes and other values
JSKinds == {"Vector2", "Point", "Set", "Array", "number", "string", "object", "null"}

\* whether a value of type kind has a method called name
HasMethod(kind, name) == kind = "Vector2" /\ name \in {"add", "copy"}

\* whether reading property name of a value of type kind raises
PropThrows(kind, name) == kind = "null"

\* whether the property name of a value of type kind is undefined
PropUndefined(kind, name) ==
    ~(\/ kind = "Point" /\ name = "position"
      \/ kind = "Vector2" /\ name \in {"x", "y"})

\* new Point(fixed, position, velocity, ...) with a position of type kind and a zero or
\* non-zero Vector2 velocity: _dpos is position.add(velocity) or position.copy()
Point_constructor(kind, velocityIsZero) ==
    LET method == IF velocityIsZero THEN "copy" ELSE "add"
    IN  [threw |-> PropThrows(kind, method) \/ ~HasMethod(kind, method),
         holds |-> <<kind>>]

\* new Spring(a, b, stiffness, restLength) with endpoints of types ka and kb: only a
\* restLength of -1 reads a.position and b.position, in Vector2.Distance
Spring_constructor(ka, kb, restLengthGiven) ==
    [threw |-> /\ ~restLengthGiven
               /\ \/ PropThrows(ka, "position") \/ PropThrows(kb, "position")
                  \/ PropUndefined(ka, "position") \/ PropUndefined(kb, "position"),
     holds |-> <<ka, kb>>]

\* Entity's `x instanceof Set ? x : Array.isArray(x) ? new Set(x) : new Set()`
SetOrEmpty(kind) == IF kind \in {"Set", "Array"} THEN "Set" ELSE "empty Set"

\* new Entity(iterations, points, springs) with points and springs of types kp and ks
Entity_constructor(kp, ks) ==
    [threw |-> FALSE, holds |-> <<SetOrEmpty(kp), SetOrEmpty(ks)>>]

InitCtor ==
    /\ last = NoLast
    /\ entities = <<>>
    /\ KernelIdle /\ EntityIdle /\ VerletIdle /\ MouseIdle /\ ConstrainIdle

Constructed(op, args, r) ==
    /\ last' = [op |-> op, args |-> args, ret |-> r.holds, threw |-> r.threw, calls |-> <<>>]
    /\ UNCHANGED <<entities, kernelVars, entityVars, verletVars, mouseVars, constrainVars>>

\* new Point(false, position, velocity)
NewPoint(kind, velocityIsZero) ==
    Constructed("new Point", <<kind, IF velocityIsZero THEN "zero" ELSE "non-zero">>,
                Point_constructor(kind, velocityIsZero))

\* new Spring(a, b, 2, restLength)
NewSpring(ka, kb, restLengthGiven) ==
    Constructed("new Spring", <<ka, kb, IF restLengthGiven THEN "given" ELSE "-1">>,
                Spring_constructor(ka, kb, restLengthGiven))

\* new Entity(1, points, springs)
NewEntity(kp, ks) == Constructed("new Entity", <<kp, ks>>, Entity_constructor(kp, ks))

NextCtor ==
    \/ \E kind \in JSKinds, z \in BOOLEAN : NewPoint(kind, z)
    \/ \E ka \in JSKinds, kb \in JSKinds, g \in BOOLEAN : NewSpring(ka, kb, g)
    \/ \E kp \in JSKinds, ks \in JSKinds : NewEntity(kp, ks)

SpecCtor == InitCtor /\ [][NextCtor]_vars

\* C18: constructing a Point with a non-Vector2 position, a Spring with a non-Point
\* endpoint (with or without an explicit restLength), or an Entity with a points or
\* springs argument that is neither a Set nor an array raises an error in the
\* constructor and produces no object.
C18_FailFast ==
    /\ (last.op = "new Point" /\ last.args[1] # "Vector2") => last.threw
    /\ (last.op = "new Spring" /\ (last.args[1] # "Point" \/ last.args[2] # "Point"))
           => last.threw
    /\ (last.op = "new Entity" /\ \E i \in 1..2 : last.args[i] \notin {"Set", "Array"})
           => last.threw

----------------------------------------------------------------------------
(* Fixed points under Entity.update, checked under SpecEntity *)

\* C20: a fixed point's position is unchanged by Entity.update(bounds), whatever the
\* bounds and wherever the point started: integration, spring relaxation and the
\* boundary constraint all leave it where it was constructed.
C20_FixedPointAnchored ==
    \A p \in EPoints :
        (nTicks >= 1 /\ points[p].fixed /\ Has(entity.points, p))
            => points[p].position = start[p].position

----------------------------------------------------------------------------
(* SpecWall: one Entity holding a single non-fixed point and no spring, in  *)
(* the rectangle WBounds; the point is constructed at any position and with *)
(* any previous position over WCoords, its gravity points at one of the     *)
(* four walls, and Entity.update(WBounds) is called MaxWallTicks times at   *)
(* most.  Nothing else writes to the point.                                 *)

MaxWallTicks == 3

WBounds == Rect(0, 0, 10, 10)

WSize == R(1)

WCoords == { -2, 1, 5, 9, 12 }

WGravities == { V(0, 1), V(1, 0), V(0, -1), V(-1, 0) }

WFrictions == { R(0), Q(1, 2), R(1) }

InitWall ==
    /\ \E x \in WCoords, y \in WCoords, dx \in WCoords, dy \in WCoords,
          fr \in WFrictions, g \in WGravities :
          LET pt == Point(FALSE, V(x, y), VSub(V(dx, dy), V(x, y)), R(1), fr, g, WSize)
          IN  /\ points = <<pt>>
              /\ start = <<[position |-> pt.position, dpos |-> pt.dpos]>>
    /\ springs = NoSprings
    /\ nUpd = <<0>>
    /\ nSpr = <<>>
    /\ entity = Entity(1, <<1>>, <<>>)
    /\ elog = <<>>
    /\ nTicks = 0
    /\ SimIdle /\ VerletIdle /\ MouseIdle /\ ConstrainIdle

\* entity.update(WBounds)
WallUpdate ==
    /\ nTicks < MaxWallTicks
    /\ LET r == Entity_update(entity, WBounds, points, springs)
       IN  /\ Exact(r.pts)
           /\ points' = r.pts
           /\ elog' = r.log
    /\ nTicks' = nTicks + 1
    /\ UNCHANGED <<springs, start, nUpd, nSpr, entity>>
    /\ UNCHANGED <<simVars, verletVars, mouseVars, constrainVars>>

NextWall == WallUpdate

SpecWall == InitWall /\ [][NextWall]_vars

\* the coordinate of v along the axis of the acceleration g
Along(v, g) == IF g.x = R(0) THEN v.y ELSE v.x

\* whether g points towards growing coordinates
Forward(g) == Lt(R(0), Along(g, g))

\* the coordinate Rectangle.Constrain gives a point pushed past the wall g points into
Wall(g) ==
    IF Forward(g)
    THEN Sub(Add(Along(Vec(WBounds.x, WBounds.y), g), Along(Vec(WBounds.w, WBounds.h), g)), WSize)
    ELSE Add(Along(Vec(WBounds.x, WBounds.y), g), WSize)

\* whether the coordinate c lies past the wall g points into
Beyond(c, g) == IF Forward(g) THEN Lt(Wall(g), c) ELSE Lt(c, Wall(g))

\* the point is at the wall its acceleration points into and the next
\* Entity.update leaves it there
StaysAtWall ==
    LET g == points[1].gravity
    IN  (nTicks >= 1 /\ Along(points[1].position, g) = Wall(g))
            => Along(points'[1].position, g) = Wall(g)

----------------------------------------------------------------------------
(* Points and the bounds after Entity.update, checked under SpecEntity *)

\* whether the point p lies in rect inset by the point's size on every side
InsideInset(p, rect) ==
    /\ Le(Add(rect.x, p.size), p.position.x)
    /\ Le(p.position.x, Sub(Add(rect.x, rect.w), p.size))
    /\ Le(Add(rect.y, p.size), p.position.y)
    /\ Le(p.position.y, Sub(Add(rect.y, rect.h), p.size))

\* C21: when Entity.update(bounds) returns, for bounds at least twice as wide and as
\* high as every point's size, every point of the entity lies in the bounds inset by
\* its size, whatever the number of springs and the iteration count.
C21_PointsInsideBounds ==
    [][\A b \in EBounds :
          (EntityUpdate(b) /\ \A p \in EPoints : Le(Mul(R(2), points[p].size), b.w)
                                              /\ Le(Mul(R(2), points[p].size), b.h))
              => \A i \in 1..Len(entity.points) :
                     InsideInset(points'[entity.points[i]], b)]_vars

----------------------------------------------------------------------------
(* The running state of a Verlet, checked under SpecVerlet *)

\* C22: in every reachable state of a Verlet, after its constructor with either
\* playOnStart value and any sequence of play(), pause(), tps =, playing =,
\* interactable =, add() and dimensions =, the playing flag is true if and only if
\* an update interval is active.
C22_PlayingIffInterval == playing <=> (intervals # {})

\* C27: in every reachable state with playing false, play() leaves playing true with
\* an update interval active and a render frame requested; in every reachable
\* state with playing true, pause() leaves playing false with the update interval
\* cleared and the render frame cancelled; and in no reachable state do play() and
\* pause() both leave the running state as it is.
C27_PlayPauseEffective ==
    LET played == Verlet_play(VerletNow)
        paused == Verlet_pause(VerletNow)
    IN  /\ ~playing =>
              /\ played.playing
              /\ played.updateInterval \in played.intervals
              /\ played.renderFrame \in played.frames
        /\ playing =>
              /\ ~paused.playing
              /\ paused.updateInterval = NoHandle
              /\ updateInterval \notin paused.intervals
              /\ paused.renderFrame = NoHandle
              /\ renderFrame \notin paused.frames
        /\ played.playing # playing \/ paused.playing # playing

----------------------------------------------------------------------------
(* SpecRest: one Spring between a point at the origin and a point at any of *)
(* RPositions, constructed with any rest length of RestInputs, -1 (take the *)
(* distance of the endpoints) included; its restLength is then assigned any *)
(* number of times.                                                         *)

RPositions == { V(0, 0), V(3, 0), V(0, 4), V(3, 4), V(6, 8), V(5, 12) }

RStiffnesses == { R(1), R(2), R(4) }

RestInputs == { R(-3), R(-1), Q(-1, 2), R(0), Q(1, 4), R(1), R(2), R(7) }

InitRest ==
    /\ \E pos \in RPositions :
          points = << Point(FALSE, V(0, 0), V(0, 0), R(1), R(0), V(0, 1), R(1)),
                      Point(FALSE, pos, V(0, 0), R(1), R(0), V(0, 1), R(1)) >>
    /\ \E st \in RStiffnesses, rl \in RestInputs : springs = << Spring(1, 2, st, rl, points) >>
    /\ start = <<>> /\ nUpd = <<>> /\ nSpr = <<>>
    /\ EntityIdle /\ SimIdle /\ VerletIdle /\ MouseIdle /\ ConstrainIdle

\* s.restLength = rl
SetRestLength(rl) ==
    /\ springs' = [springs EXCEPT ![1] = Spring_set_restLength(springs[1], rl)]
    /\ UNCHANGED points
    /\ ClampOnly

NextRest == \E rl \in RestInputs : SetRestLength(rl)

SpecRest == InitRest /\ [][NextRest]_vars

\* C23: every Spring has restLength > 0 after its construction and after any
\* assignment to restLength, also when the constructor was given -1 and took the
\* distance between the two endpoints.
C23_RestLengthPositive == Lt(R(0), springs[1].restLength)

----------------------------------------------------------------------------
(* SpecVelocity: one Point constructed with any velocity of VelVelocities,  *)
(* the zero vector included, and updated MaxSteps times at most; start also *)
(* keeps the velocity the constructor was given.                            *)

VelPositions == { V(0, 0), V(10, 10), V(-4, 7) }

VelVelocities == { V(0, 0), V(0, -3), V(2, 0), V(4, 6), V(-2, 2) }

VelFrictions == { R(0), Q(1, 2), R(1) }

VelGravities == { V(0, 0), V(0, 1) }

InitVelocity ==
    /\ \E fx \in BOOLEAN, pos \in VelPositions, vel \in VelVelocities,
          fr \in VelFrictions, g \in VelGravities :
          LET pt == Point(fx, pos, vel, R(1), fr, g, R(1))
          IN  /\ points = <<pt>>
              /\ start = <<[position |-> pt.position, dpos |-> pt.dpos, velocity |-> vel]>>
    /\ springs = NoSprings
    /\ nUpd = <<0>>
    /\ nSpr = <<>>
    /\ EntityIdle /\ SimIdle /\ VerletIdle /\ MouseIdle /\ ConstrainIdle

\* p.update() on the one point
VelocityUpdate ==
    /\ nUpd[1] < MaxSteps
    /\ points' = [points EXCEPT ![1] = Point_update(@)]
    /\ nUpd' = [nUpd EXCEPT ![1] = @ + 1]
    /\ UNCHANGED <<springs, start, nSpr>>
    /\ UNCHANGED <<entityVars, simVars, verletVars, mouseVars, constrainVars>>

NextVelocity == VelocityUpdate

SpecVelocity == InitVelocity /\ [][NextVelocity]_vars

\* what the constructor left in _dpos for the velocity it was given
DposFromVelocity ==
    start[1].dpos = IF IsZero(start[1].velocity) THEN start[1].position
                    ELSE VAdd(start[1].position, start[1].velocity)

\* the first update of the point, when it is not fixed, displaces it by
\* -velocity * (1 - friction) + gravity
FirstUpdateReversed ==
    (nUpd[1] = 0 /\ nUpd'[1] = 1 /\ ~points[1].fixed) =>
        points'[1].position =
            VAdd(VAdd(points[1].position,
                      VMul(VSub(V(0, 0), start[1].velocity), Sub(R(1), points[1].friction))),
                 points[1].gravity)

----------------------------------------------------------------------------
(* SpecDrag: the MouseInteraction of SpecRelease inside an interactable     *)
(* Verlet whose update() is called between the mouse events.                *)

MBounds == Rect(0, 0, 10, 10)

\* verlet.update(), as the update interval calls it
VerletUpdate ==
    /\ \E r \in { Verlet_update(TRUE, mi, entities, MPointsOf, MBounds, points) } :
           /\ r.pts # points => mlog.drags < MaxDrags
           /\ mi' = r.m /\ points' = r.pts
           /\ mlog' = [MouseLog("Verlet.update", r.m.activePoint, r.threw)
                          EXCEPT !.drags = IF r.pts # points THEN @ + 1 ELSE @]
    /\ UNCHANGED nTicks
    /\ MouseOnly

NextDrag ==
    \/ \E e \in MCoords : MouseMove(e)
    \/ MouseDown(FALSE)
    \/ MouseUp
    \/ MouseDrag
    \/ VerletUpdate
    \/ \E p \in MPoints : MousePointUpdate(p)

SpecDrag == InitMouse /\ [][NextDrag]_vars

\* the button is down on an active point
Dragging == mi.down /\ mi.activePoint # Null

\* C25: while the mouse button is held down with an active point, drag() and
\* Verlet.update() never change which point is active, and at the end of every
\* Verlet.update() the position of the active point equals mouse.offsetPosition,
\* the overwrite coming after Simulation.update has completed.
C25_DragFollowsMouse ==
    /\ [][(Dragging /\ mlog'.op \in {"drag", "Verlet.update"})
             => mi'.activePoint = mi.activePoint]_vars
    /\ [](Dragging /\ mlog.op = "Verlet.update"
             => points[mi.activePoint].position = mi.offsetPosition)

----------------------------------------------------------------------------
(* Point styles under the mouse, checked under SpecMouse *)

\* C26: after any sequence of hover selections, left and right mousedown events,
\* mouseup events and ticks, every point has a style that is not null, so that
\* reading p.style.size cannot fail; right-clicking a point that was created fixed
\* unpins it and leaves it with a style.
C26_StylesNeverNull == \A p \in MPoints : mi.style[p] # NullStyle

----------------------------------------------------------------------------
(* SpecRemove: the Entity of SpecEntity holding all three points and both   *)
(* springs; points are removed with removePoint, which leaves the springs   *)
(* as they are, and Entity.update(bounds) is called MaxTicks times at most. *)

InitRemove == InitEntity /\ entity.points = <<1, 2, 3>> /\ entity.springs = <<1, 2>>

\* entity.removePoint(p)
RemovePoint(p) ==
    /\ entity' = Entity_removePoint(entity, p).e
    /\ UNCHANGED <<kernelVars, elog, nTicks>>
    /\ UNCHANGED <<simVars, verletVars, mouseVars, constrainVars>>

NextRemove ==
    \/ \E p \in EPoints : RemovePoint(p)
    \/ \E b \in EBounds : EntityUpdate(b)

SpecRemove == InitRemove /\ [][NextRemove]_vars

\* C28: after Entity.removePoint(p) has returned true, no later Entity.update on the
\* entity changes the position or the previous position of p, also when springs of
\* the entity that have p as an endpoint were left in it.
C28_RemovedPointUntouched ==
    [][\A p \in EPoints :
          (~Has(entity.points, p) /\ nTicks' = nTicks + 1)
              => /\ points'[p].position = points[p].position
                 /\ points'[p].dpos = points[p].dpos]_vars

----------------------------------------------------------------------------
(* ClothEntity.  The grid cell (x, y) is named by the number x * yseg + y;  *)
(* a member of the point Set is the Point of a cell or undefined, a spring  *)
(* is the pair of the cells of its endpoints.                               *)

CellPoint(x, y, yseg) == [kind |-> "Point", val |-> x * yseg + y]

\* pts[x][y], for x < xseg: the Point made by the first loop, or undefined
PtsAt(x, y, xseg, yseg) == IF y < yseg THEN CellPoint(x, y, yseg) ELSE JSUndefined

\* Math.min(Math.max(Math.floor(Math.abs(segments)), 2), Number.MAX_SAFE_INTEGER)
ClampSegments(segments) == IF Abs(segments) > 2 THEN Abs(segments) ELSE 2

\* Set.prototype.add
SetAdd(set, e) == IF Has(set, e) THEN set ELSE Append(set, e)

\* the springs the second loop adds at (x, y)
SpringsAt(x, y, xseg, yseg, diagonals) ==
    LET nx == x + 1 < xseg
        ny == y + 1 < yseg
    IN  (IF nx THEN << <<CellPoint(x, y, yseg), CellPoint(x + 1, y, yseg)>> >> ELSE <<>>)
        \o (IF ny THEN << <<CellPoint(x, y, yseg), CellPoint(x, y + 1, yseg)>> >> ELSE <<>>)
        \o (IF diagonals /\ nx /\ ny
            THEN << <<CellPoint(x, y, yseg), CellPoint(x + 1, y + 1, yseg)>>,
                    <<CellPoint(x + 1, y, yseg), CellPoint(x, y + 1, yseg)>> >>
            ELSE <<>>)

\* for (let x = 0; x < xseg; x++) for (let y = 0; y < yseg; y++) { sps.add(...) },
\* from the k-th cell on
RECURSIVE ClothSprings(_, _, _, _)
ClothSprings(k, xseg, yseg, diagonals) ==
    IF ~(k < xseg * yseg) THEN <<>>
    ELSE SpringsAt(k \div yseg, k % yseg, xseg, yseg, diagonals)
             \o ClothSprings(k + 1, xseg, yseg, diagonals)

\* for (let i = 0; i < xSegments * ySegments; i++)
\*     p.add(pts[i % xSegments][Math.floor(i / ySegments)]);
RECURSIVE ClothRegister(_, _, _, _, _, _)
ClothRegister(i, p, xSegments, ySegments, xseg, yseg) ==
    IF ~(i < xSegments * ySegments) THEN p
    ELSE ClothRegister(i + 1,
                       SetAdd(p, PtsAt(i % xSegments, i \div ySegments, xseg, yseg)),
                       xSegments, ySegments, xseg, yseg)

\* new ClothEntity(iterations, position, size, xSegments, ySegments, diagonals):
\* the point Set, the spring Set and the position given to the Point of each cell
ClothEntity_constructor(position, size, xSegments, ySegments, diagonals) ==
    LET xseg   == ClampSegments(xSegments)
        yseg   == ClampSegments(ySegments)
        segdim == Vec(Div(size.x, R(xseg)), Div(size.y, R(yseg)))
    IN  [threw  |-> FALSE,
         holds  |-> [points   |-> ClothRegister(0, <<>>, xSegments, ySegments, xseg, yseg),
                     springs  |-> ClothSprings(0, xseg, yseg, diagonals),
                     position |-> [c \in 0..(xseg * yseg - 1) |->
                                      Vec(Add(Mul(R(c \div yseg), segdim.x), position.x),
                                          Add(Mul(R(c % yseg), segdim.y), position.y))]]]

----------------------------------------------------------------------------
(* SpecCloth: ClothEntity objects are constructed with any segment counts   *)
(* of 1..MaxSegments, with or without diagonals, at any of ClothPositions   *)
(* and with any of ClothSizes; `last` keeps the call and what it built.     *)

MaxSegments == 4

ClothPositions == { V(0, 0), V(10, 5) }

ClothSizes == { V(12, 12), V(24, 12) }

InitCloth ==
    /\ last = NoLast
    /\ entities = <<>>
    /\ KernelIdle /\ EntityIdle /\ VerletIdle /\ MouseIdle /\ ConstrainIdle

\* new ClothEntity(8, position, size, xSegments, ySegments, diagonals)
NewCloth(position, size, xSegments, ySegments, diagonals) ==
    Constructed("new ClothEntity", <<position, size, xSegments, ySegments, diagonals>>,
                ClothEntity_constructor(position, size, xSegments, ySegments, diagonals))

NextCloth ==
    \E position \in ClothPositions, size \in ClothSizes,
       xSegments \in 1..MaxSegments, ySegments \in 1..MaxSegments, diagonals \in BOOLEAN :
        NewCloth(position, size, xSegments, ySegments, diagonals)

SpecCloth == InitCloth /\ [][NextCloth]_vars

\* C29: for all integers xSegments >= 2 and ySegments >= 2, equal or not, the point
\* set of a constructed ClothEntity holds exactly xSegments * ySegments Points, one
\* for each grid coordinate (x, y), holds no undefined member, and holds both
\* endpoints of every spring of its spring set.
C29_ClothGridComplete ==
    (last.op = "new ClothEntity" /\ last.args[3] >= 2 /\ last.args[4] >= 2) =>
        LET xs == last.args[3]
            ys == last.args[4]
            p  == last.ret.points
        IN  /\ Len(p) = xs * ys
            /\ \A x \in 0..(xs - 1), y \in 0..(ys - 1) : Has(p, CellPoint(x, y, ys))
            /\ ~Has(p, JSUndefined)
            /\ \A i \in 1..Len(last.ret.springs) :
                   /\ Has(p, last.ret.springs[i][1])
                   /\ Has(p, last.ret.springs[i][2])

----------------------------------------------------------------------------
(* SpecRelax: one isolated Spring between two non-fixed points, of any      *)
(* stiffness of XStiffnesses and any pair of masses of XMasses; only        *)
(* Spring.update() is called, MaxSteps times at most.                       *)

XPositions == { <<V(0, 0), V(12, 0)>>, <<V(10, 10), V(10, 16)>>, <<V(0, 0), V(3, 4)>> }

XMasses == { <<R(1), R(1)>>, <<R(1), R(3)>>, <<R(5), R(2)>> }

XStiffnesses == { Q(1, 2), R(1), R(2), R(-3), R(4), R(5), R(6) }

XRestLengths == { R(10), R(5) }

InitRelax ==
    /\ \E pos \in XPositions, m \in XMasses, k \in XStiffnesses, rl \in XRestLengths :
          LET pts == [p \in KPoints |-> Point(FALSE, pos[p], V(0, 0), m[p], R(0), V(0, 1), KSize)]
          IN  /\ points = pts
              /\ springs = <<Spring(1, 2, k, rl, pts)>>
              /\ start = [p \in KPoints |-> [position |-> pts[p].position, dpos |-> pts[p].dpos]]
    /\ nUpd = [p \in KPoints |-> 0]
    /\ nSpr = <<0>>
    /\ EntityIdle /\ SimIdle /\ VerletIdle /\ MouseIdle /\ ConstrainIdle

\* s.update() on the one spring
RelaxUpdate ==
    /\ nSpr[1] < MaxSteps
    /\ Exact(Spring_update(springs[1], points))
    /\ points' = Spring_update(springs[1], points)
    /\ nSpr' = [nSpr EXCEPT ![1] = @ + 1]
    /\ UNCHANGED <<springs, start, nUpd>>
    /\ UNCHANGED <<entityVars, simVars, verletVars, mouseVars, constrainVars>>

NextRelax == RelaxUpdate

SpecRelax == InitRelax /\ [][NextRelax]_vars

\* the distance between the endpoints of the spring, and its error |dist - restLength|
SpringDist(pts) == Distance(pts[springs[1].a].position, pts[springs[1].b].position)

SpringError(pts) == JSAbs(Sub(SpringDist(pts), springs[1].restLength))

\* a Spring.update() on endpoints that are apart does not increase the error
ErrorNotIncreased ==
    (IsSpringUpdate(1) /\ Gt(SpringDist(points), R(0)))
        => Le(SpringError(points'), SpringError(points))

\* a Spring.update() with stiffness 2 on endpoints that are apart brings them to
\* the rest length
ExactAtStiffness2 ==
    (IsSpringUpdate(1) /\ Gt(SpringDist(points), R(0)) /\ springs[1].stiffness = R(2))
        => SpringDist(points') = springs[1].restLength

\* C30 as stated: for an isolated spring with both endpoints non-fixed and dist > 0,
\* one Spring.update() never increases the error |dist - restLength|, for every
\* stiffness the setter accepts and every pair of masses, and with stiffness 2 the
\* distance after one pass equals restLength.
C30_ErrorNeverGrows == [][ErrorNotIncreased /\ ExactAtStiffness2]_vars

\* C30, amended: the same, for every stiffness of at most 4.
C30_ErrorNeverGrowsUpTo4 ==
    [][(Le(springs[1].stiffness, R(4)) => ErrorNotIncreased) /\ ExactAtStiffness2]_vars

\* a spring of stiffness 2 between points of masses 1 and 3 that were not at rest
\* has made one pass, which moved both, and its endpoints are at the rest length
C30_Witness ==
    /\ nSpr[1] = 1
    /\ springs[1].stiffness = R(2)
    /\ points[1].mass = R(1) /\ points[2].mass = R(3)
    /\ Distance(start[1].position, start[2].position) # springs[1].restLength
    /\ points[1].position # start[1].position
    /\ points[2].position # start[2].position
    /\ SpringDist(points) = springs[1].restLength

====
